---- MODULE Spec2Model ----
(***************************************************************************)
(* Image fallback and lazy-loading subsystem of the Radius Works site      *)
(* (js/image-enhancements.js, class ImageEnhancementManager).              *)
(*                                                                         *)
(* A page holds some of three image elements:                              *)
(*   "pic"   - an img built by createPictureElement('hero', 'main'); it    *)
(*             sits in its own picture.enhanced-picture, which the page    *)
(*             nests in a div.image-container;                             *)
(*   "card"  - a static lazy img of the page markup inside a .service-card;*)
(*   "thumb" - a static lazy img with no data attributes and no container; *)
(*   "bare"  - a static lazy img with an alternate source and no container;*)
(*   "twin"  - a second img built by createPictureElement('hero', 'main'),  *)
(*             from the same record as "pic", in a picture of its own;     *)
(*   "tile"  - a static lazy img in the .service-background of a service    *)
(*             card, which the site script also watches with an observer   *)
(*             of its own and hands to handleServiceImageError;            *)
(*   "member", "review" - static imgs of the about and review sections,    *)
(*             whose inline onerror calls handleAboutImageError(this) and  *)
(*             handleReviewImageError(this).                               *)
(* The browser is modelled by what it does with an img: it resolves the    *)
(* src attribute to an absolute URL when the attribute is read, it keeps   *)
(* at most one fetch per img element and restarts it when src is set, and  *)
(* it dispatches load/error events to the registered listeners, one        *)
(* listener after the other.  Whether a fetch succeeds is the network's    *)
(* choice.                                                                 *)
(***************************************************************************)
EXTENDS Integers, Sequences, FiniteSets, TLC

\* ------------------------------------------------------------------ bounds
\* explicit calls of the public method loadImage(img) by page scripts
MaxExplicit == 2
\* explicit calls of trackFallbackUsage in the Stats Recorder specification
MaxTrack == 3
\* nested calls the script engine allows before it raises a stack overflow
MaxStack == 3

\* ------------------------------------------------------------------- URLs
\* A URL string is a path plus the form it is written in; the empty path is
\* the missing attribute / empty string (falsy in the source).
Paths == {"stock.png", "hero-bg.jpg"}
Absent == [path |-> "", abs |-> FALSE]
Rel(p) == [path |-> p, abs |-> FALSE]
AbsUrl(p) == [path |-> p, abs |-> TRUE]
Urls == {Rel(p) : p \in Paths} \cup {AbsUrl(p) : p \in Paths}
Truthy(u) == u.path # ""

\* img.src read back: the attribute resolved against the document URL
Resolve(u) == IF u.path = "" THEN u ELSE [path |-> u.path, abs |-> TRUE]

\* ------------------------------------------------------------------- page
Imgs == {"pic", "twin", "card", "thumb", "bare", "tile", "member", "review"}

\* the pages: which of the imgs the page has
Pages == {{"pic", "thumb"}, {"card", "thumb"}, {"bare"}}

\* the pages of the about and review sections
InlinePages == {{"member"}, {"review"}}

\* the page with a service card of the site script
ServicePages == {{"tile"}}

\* the page on which a script builds two pictures from one record
TwinPages == {{"pic", "twin"}}

Nodes == {"picture", "wrapper", "twinPicture", "cardbox", "teamMember", "reviewBackground",
          "reviewCard", "serviceBackground", "serviceCard"}

\* the img has an inline onerror attribute calling a global handler
Inline(i) == i \in {"member", "review"}

\* the img matches '.service-background img[loading="lazy"]'
ServiceTile(i) == i = "tile"

\* the img has the per-element load/error listeners of createPictureElement
Built(i) == i \in {"pic", "twin"}

\* the img matches 'img[loading="lazy"], .lazy-image' when init runs; the
\* built img is created after setupLazyLoading has taken its list
LazyMarkup(i) == i \in {"card", "thumb", "bare", "tile"}

\* data-category / data-image-name of the img, as strings of tokens; a
\* missing data attribute reads as undefined
Category(i) ==
  CASE i \in {"pic", "twin"} -> <<"hero">>
    [] i \in {"card", "tile"} -> <<"services">>
    [] i = "member" -> <<"about">>
    [] i = "review" -> <<"reviews">>
    [] OTHER -> <<"undefined">>

ImageName(i) ==
  CASE i \in {"pic", "twin"} -> <<"main">>
    [] i = "card" -> <<"drain">>
    [] i = "tile" -> <<"bathroom">>
    [] i = "member" -> <<"owner">>
    [] i = "review" -> <<"kitchen">>
    [] OTHER -> <<"undefined">>

\* ancestors of the img, nearest first
Ancestors(i) ==
  CASE i = "pic" -> <<"picture", "wrapper">>
    [] i = "twin" -> <<"twinPicture">>
    [] i = "card" -> <<"cardbox">>
    [] i = "tile" -> <<"serviceBackground", "serviceCard">>
    [] i = "member" -> <<"teamMember">>
    [] i = "review" -> <<"reviewBackground", "reviewCard">>
    [] OTHER -> <<>>

\* the class of a node that the container selector can match
NodeClass(n) ==
  CASE n \in {"picture", "twinPicture"} -> "enhanced-picture"
    [] n = "wrapper" -> "image-container"
    [] n \in {"cardbox", "serviceCard"} -> "service-card"
    [] n = "serviceBackground" -> "service-background"
    [] n = "teamMember" -> "team-member"
    [] n = "reviewBackground" -> "review-background"
    [] n = "reviewCard" -> "review-card enhanced"

ContainerSelector ==
  {"image-container", "service-card", "hero-image", "about-image", "enhanced-picture"}

\* img.closest(selector): the nearest ancestor matching; "" when there is none
RECURSIVE FirstMatch(_)
FirstMatch(s) ==
  IF s = <<>> THEN ""
  ELSE IF NodeClass(Head(s)) \in ContainerSelector THEN Head(s)
  ELSE FirstMatch(Tail(s))

Closest(i) == FirstMatch(Ancestors(i))

\* the nodes of the subtree of n (querySelector searches descendants)
Subtree(n) ==
  CASE n = "wrapper" -> {"wrapper", "picture"}
    [] n = "reviewCard" -> {"reviewCard", "reviewBackground"}
    [] n = "serviceCard" -> {"serviceCard", "serviceBackground"}
    [] OTHER -> {n}

\* getFallbackImage returning fallbacks[category] without the default
getFallbackImage_NoDefault(category) ==
  CASE category = <<"hero">> -> Rel("hero-bg.jpg")
    [] category = <<"services">> -> Rel("residential-service.jpg")
    [] category = <<"about">> -> Rel("radius-logo2.png")
    [] category = <<"reviews">> -> Rel("hero-bg.jpg")
    [] OTHER -> Absent

\* getFallbackImage(category)
getFallbackImage(category) ==
  CASE category = <<"hero">> -> Rel("hero-bg.jpg")
    [] category = <<"services">> -> Rel("residential-service.jpg")
    [] category = <<"about">> -> Rel("radius-logo2.png")
    [] category = <<"reviews">> -> Rel("hero-bg.jpg")
    [] OTHER -> Rel("hero-bg.jpg")

\* the img of the built picture: createPictureElement sets src to the record's
\* primary source, createFallbackPictureElement (no record) to the category's
\* generic fallback; both set data-fallback-src to the generic fallback
PicProfiles ==
  { [src |-> Rel("stock.png"), fallbackSrc |-> getFallbackImage(<<"hero">>)],
    [src |-> getFallbackImage(<<"hero">>), fallbackSrc |-> getFallbackImage(<<"hero">>)] }

\* markup variants of the static img: src, data-src, data-fallback-src
CardProfiles ==
  { [src |-> Rel("stock.png"), dataSrc |-> Absent, fallbackSrc |-> Absent],
    [src |-> Rel("stock.png"), dataSrc |-> Absent, fallbackSrc |-> Rel("hero-bg.jpg")],
    [src |-> Rel("stock.png"), dataSrc |-> Absent, fallbackSrc |-> AbsUrl("stock.png")],
    [src |-> Absent, dataSrc |-> Rel("stock.png"), fallbackSrc |-> Rel("hero-bg.jpg")] }

\* data-fallback-src of the img with an inline handler: missing, a distinct
\* alternate, or exactly the URL the img reports as its current source
InlineAlternates == {Absent, Rel("hero-bg.jpg"), AbsUrl("stock.png")}

\* ------------------------------------------------------------------ state
VARIABLES
  page,             \* the imgs of the page
  hasIO,            \* 'IntersectionObserver' in window
  attached,         \* img -> the img is in the document
  initDone,         \* init() has run its setup steps
  observerCreated,  \* this.observer is an IntersectionObserver
  observed,         \* the imgs the observer watches
  loadedImages,     \* this.loadedImages
  srcAttr,          \* img -> src attribute
  dataSrc,          \* img -> data-src
  fallbackSrc,      \* img -> data-fallback-src
  fallbackLevel,    \* img -> data-fallback-level ("" when not set)
  classes,          \* img -> classList
  hidden,           \* img -> style.display = 'none'
  nodeClasses,      \* node -> state classes added by the handlers
  placeholders,     \* node -> number of .placeholder-content children
  errorPlaceholders,\* node -> number of .error-placeholder children
  fallbackStats,    \* this.fallbackStats: [set, map]
  native,           \* img -> the URL the element itself is fetching
  probes,           \* img -> URL -> pending temporary Image probes
  dispatch,         \* listeners still to run for the event being dispatched
  explicit,         \* explicit loadImage calls made so far
  calls,            \* explicit trackFallbackUsage calls since the last reset
  ev,               \* the handler run of the last step
  rejected,         \* imgs for which a promise returned by loadImage was rejected
  overflowed,       \* imgs whose inline error handler ended in a stack overflow
  placeholderLabel, \* node -> text of its .placeholder-content ("" when none)
  dataCategory,     \* img -> data-category
  dataImageName,    \* img -> data-image-name
  pictureData,      \* data-category / data-image-name of the built picture
  imageMetadata,    \* this.imageMetadata: [set, cats, seoDefault]
  fetched,          \* how the metadata fetch of init ended ("" while pending)
  initPc,           \* where init() is: "loading", "setup" or "done"
  initSteps,        \* the setup steps init() has run, in order
  webpSupported,    \* what checkWebPSupport() returns in this browser
  last,             \* the last call of the builder's interface and its result
  cleanups,         \* pending cleanup timers of testFallbackSystem
  markupSources,    \* type attributes of the <source> elements of the page markup
  docUnits,         \* the pictures the manager has put into the document
  serviceObserved,  \* the imgs the site script's observer watches
  serviceProbes,    \* img -> pending temporary Image probes of the site script
  serviceIcon       \* the service card has a '.service-icon i'

\* the state of the site script's service cards
serviceVars == <<serviceObserved, serviceProbes, serviceIcon>>

\* the state of the metadata store and of the Picture Element Builder
builderVars == <<imageMetadata, fetched, initPc, initSteps, webpSupported, last, cleanups,
                 markupSources, docUnits>>

vars == <<page, hasIO, attached, initDone, observerCreated, observed, loadedImages,
          srcAttr, dataSrc, fallbackSrc, fallbackLevel, classes, hidden,
          nodeClasses, placeholders, placeholderLabel, errorPlaceholders, fallbackStats,
          native, probes, dispatch, explicit, calls, ev, rejected, overflowed,
          dataCategory, dataImageName, pictureData, builderVars, serviceVars>>

\* ------------------------------------------------------- Stats Recorder
\* key = `${category}/${imageName}`
StatsKey(category, imageName) == category \o <<"/">> \o imageName

NoStats == [set |-> FALSE, map |-> <<>>]
EmptyMap == [k \in {} |-> 0]

\* trackFallbackUsage without the `if (!this.fallbackStats[key])` guard: the
\* entry is created anew at every call
trackFallbackUsage_NoGuard(stats, category, imageName, lvl) ==
  LET m0 == IF stats.set THEN stats.map ELSE EmptyMap
      key == StatsKey(category, imageName)
  IN [set |-> TRUE,
      map |-> [k \in DOMAIN m0 \cup {key} |->
                 IF k = key THEN [levels |-> <<lvl>>, count |-> 1] ELSE m0[k]]]

\* trackFallbackUsage(category, imageName, fallbackLevel): the new value of
\* this.fallbackStats
trackFallbackUsage(stats, category, imageName, lvl) ==
  LET m0 == IF stats.set THEN stats.map ELSE EmptyMap
      key == StatsKey(category, imageName)
      m1 == IF key \in DOMAIN m0 THEN m0
            ELSE [k \in DOMAIN m0 \cup {key} |->
                    IF k = key THEN [levels |-> <<>>, count |-> 0] ELSE m0[k]]
  IN [set |-> TRUE,
      map |-> [m1 EXCEPT ![key] = [levels |-> Append(@.levels, lvl),
                                   count |-> @.count + 1]]]

\* getFallbackStats(): this.fallbackStats || {}
getFallbackStats == IF fallbackStats.set THEN fallbackStats.map ELSE EmptyMap

\* ------------------------------------------------ Fallback State Machine
\* parseInt(img.dataset.fallbackLevel || '0')
ParseLevel(s) ==
  CASE s = "" -> 0
    [] s = "0" -> 0
    [] s = "1" -> 1
    [] s = "2" -> 2
    [] s = "3" -> 3

Level(i) == ParseLevel(fallbackLevel[i])

\* container.querySelector('.placeholder-content') / ('.error-placeholder')
HasPlaceholder(n) == \E m \in Subtree(n) : placeholders[m] > 0
HasErrorPlaceholder(n) == \E m \in Subtree(n) : errorPlaceholders[m] > 0

\* createPlaceholderContent(container, category): new placeholder counts
createPlaceholderContent(n) ==
  IF HasPlaceholder(n) THEN placeholders
  ELSE [placeholders EXCEPT ![n] = @ + 1]

\* getPlaceholderText(category)
getPlaceholderText(category) ==
  CASE category = <<"hero">> -> "Professional Plumbing Services"
    [] category = <<"services">> -> "Service Image"
    [] category = <<"about">> -> "Our Team"
    [] category = <<"reviews">> -> "Customer Review"
    [] OTHER -> "Image"

\* createPlaceholderContent(container, category): the text of the container's
\* own placeholder
PlaceholderLabelAfter(n, category) ==
  IF HasPlaceholder(n) THEN placeholderLabel
  ELSE [placeholderLabel EXCEPT ![n] = getPlaceholderText(category)]

\* createErrorPlaceholder(container, category): new error-placeholder counts
createErrorPlaceholder(n) ==
  IF HasErrorPlaceholder(n) THEN errorPlaceholders
  ELSE [errorPlaceholders EXCEPT ![n] = @ + 1]

\* attemptTertiaryFallback hiding every img built from the same record
attemptTertiaryFallback_SameRecord(i) ==
  /\ fallbackLevel' = [fallbackLevel EXCEPT ![i] = "2"]
  /\ hidden' = [j \in Imgs |->
       IF dataCategory[j] = dataCategory[i] /\ dataImageName[j] = dataImageName[i]
       THEN TRUE ELSE hidden[j]]
  /\ classes' = [classes EXCEPT ![i] = @ \cup {"fallback-tertiary"}]
  /\ IF Closest(i) # ""
     THEN /\ nodeClasses' = [nodeClasses EXCEPT ![Closest(i)] = @ \cup {"image-placeholder"}]
          /\ placeholders' = createPlaceholderContent(Closest(i))
          /\ placeholderLabel' = PlaceholderLabelAfter(Closest(i), dataCategory[i])
     ELSE UNCHANGED <<nodeClasses, placeholders, placeholderLabel>>
  /\ UNCHANGED <<srcAttr, native, errorPlaceholders>>

\* attemptTertiaryFallback leaving the img visible
attemptTertiaryFallback_Visible(i) ==
  /\ fallbackLevel' = [fallbackLevel EXCEPT ![i] = "2"]
  /\ classes' = [classes EXCEPT ![i] = @ \cup {"fallback-tertiary"}]
  /\ IF Closest(i) # ""
     THEN /\ nodeClasses' = [nodeClasses EXCEPT ![Closest(i)] = @ \cup {"image-placeholder"}]
          /\ placeholders' = createPlaceholderContent(Closest(i))
          /\ placeholderLabel' = PlaceholderLabelAfter(Closest(i), dataCategory[i])
     ELSE UNCHANGED <<nodeClasses, placeholders, placeholderLabel>>
  /\ UNCHANGED <<srcAttr, native, hidden, errorPlaceholders>>

\* attemptTertiaryFallback assigning the alternate source once more
attemptTertiaryFallback_Retry(i) ==
  /\ fallbackLevel' = [fallbackLevel EXCEPT ![i] = "2"]
  /\ hidden' = [hidden EXCEPT ![i] = TRUE]
  /\ classes' = [classes EXCEPT ![i] = @ \cup {"fallback-tertiary"}]
  /\ IF Closest(i) # ""
     THEN /\ nodeClasses' = [nodeClasses EXCEPT ![Closest(i)] = @ \cup {"image-placeholder"}]
          /\ placeholders' = createPlaceholderContent(Closest(i))
          /\ placeholderLabel' = PlaceholderLabelAfter(Closest(i), dataCategory[i])
     ELSE UNCHANGED <<nodeClasses, placeholders, placeholderLabel>>
  /\ srcAttr' = [srcAttr EXCEPT ![i] = fallbackSrc[i]]
  /\ native' = [native EXCEPT ![i] = fallbackSrc[i]]
  /\ UNCHANGED errorPlaceholders

\* attemptTertiaryFallback(img)
attemptTertiaryFallback(i) ==
  /\ fallbackLevel' = [fallbackLevel EXCEPT ![i] = "2"]
  /\ hidden' = [hidden EXCEPT ![i] = TRUE]
  /\ classes' = [classes EXCEPT ![i] = @ \cup {"fallback-tertiary"}]
  /\ IF Closest(i) # ""
     THEN /\ nodeClasses' = [nodeClasses EXCEPT ![Closest(i)] = @ \cup {"image-placeholder"}]
          /\ placeholders' = createPlaceholderContent(Closest(i))
          /\ placeholderLabel' = PlaceholderLabelAfter(Closest(i), dataCategory[i])
     ELSE UNCHANGED <<nodeClasses, placeholders, placeholderLabel>>
  /\ UNCHANGED <<srcAttr, native, errorPlaceholders>>

\* attemptSecondaryFallback(img)
attemptSecondaryFallback(i) ==
  IF Truthy(fallbackSrc[i]) /\ fallbackSrc[i] # Resolve(srcAttr[i])
  THEN /\ fallbackLevel' = [fallbackLevel EXCEPT ![i] = "1"]
       /\ srcAttr' = [srcAttr EXCEPT ![i] = fallbackSrc[i]]
       /\ native' = [native EXCEPT ![i] = fallbackSrc[i]]
       /\ classes' = [classes EXCEPT ![i] = @ \cup {"fallback-secondary"}]
       /\ UNCHANGED <<hidden, nodeClasses, placeholders, placeholderLabel, errorPlaceholders>>
  ELSE attemptTertiaryFallback(i)

\* handleFinalFallback writing the level of the previous tier
handleFinalFallback_WrongLevel(i) ==
  /\ fallbackLevel' = [fallbackLevel EXCEPT ![i] = "2"]
  /\ hidden' = [hidden EXCEPT ![i] = TRUE]
  /\ classes' = [classes EXCEPT ![i] = @ \cup {"fallback-final"}]
  /\ IF Closest(i) # ""
     THEN /\ nodeClasses' = [nodeClasses EXCEPT ![Closest(i)] = @ \cup {"image-failed"}]
          /\ errorPlaceholders' = createErrorPlaceholder(Closest(i))
     ELSE UNCHANGED <<nodeClasses, errorPlaceholders>>
  /\ UNCHANGED <<srcAttr, native, placeholders, placeholderLabel>>

\* handleFinalFallback without the error indicator
handleFinalFallback_NoIndicator(i) ==
  /\ fallbackLevel' = [fallbackLevel EXCEPT ![i] = "3"]
  /\ hidden' = [hidden EXCEPT ![i] = TRUE]
  /\ classes' = [classes EXCEPT ![i] = @ \cup {"fallback-final"}]
  /\ IF Closest(i) # ""
     THEN nodeClasses' = [nodeClasses EXCEPT ![Closest(i)] = @ \cup {"image-failed"}]
     ELSE UNCHANGED nodeClasses
  /\ UNCHANGED <<srcAttr, native, placeholders, placeholderLabel, errorPlaceholders>>

\* handleFinalFallback(img)
handleFinalFallback(i) ==
  /\ fallbackLevel' = [fallbackLevel EXCEPT ![i] = "3"]
  /\ hidden' = [hidden EXCEPT ![i] = TRUE]
  /\ classes' = [classes EXCEPT ![i] = @ \cup {"fallback-final"}]
  /\ IF Closest(i) # ""
     THEN /\ nodeClasses' = [nodeClasses EXCEPT ![Closest(i)] = @ \cup {"image-failed"}]
          /\ errorPlaceholders' = createErrorPlaceholder(Closest(i))
     ELSE UNCHANGED <<nodeClasses, errorPlaceholders>>
  /\ UNCHANGED <<srcAttr, native, placeholders, placeholderLabel>>

\* handleEnhancedImageError reading the level for the statistics after the
\* transition instead of before it
handleEnhancedImageError_TrackAfter(i) ==
  LET lvl == Level(i) IN
  /\ CASE lvl = 0 -> attemptSecondaryFallback(i)
       [] lvl = 1 -> attemptTertiaryFallback(i)
       [] OTHER -> handleFinalFallback(i)
  /\ fallbackStats' = trackFallbackUsage(fallbackStats, dataCategory[i], dataImageName[i],
                                         ParseLevel(fallbackLevel'[i]))
  /\ ev' = [kind |-> "error", img |-> i, pre |-> lvl]

\* handleEnhancedImageError(img), also reached through handleImageError
handleEnhancedImageError(i) ==
  LET lvl == Level(i) IN
  /\ CASE lvl = 0 -> attemptSecondaryFallback(i)
       [] lvl = 1 -> attemptTertiaryFallback(i)
       [] OTHER -> handleFinalFallback(i)
  /\ fallbackStats' = trackFallbackUsage(fallbackStats, dataCategory[i], dataImageName[i], lvl)
  /\ ev' = [kind |-> "error", img |-> i, pre |-> lvl]

\* handleImageLoad(img)
handleImageLoad(i) ==
  /\ classes' = [classes EXCEPT ![i] = (@ \cup {"loaded"}) \ {"loading"}]
  /\ IF Closest(i) # ""
     THEN nodeClasses' = [nodeClasses EXCEPT ![Closest(i)] =
                            @ \ {"image-placeholder", "image-failed"}]
     ELSE UNCHANGED nodeClasses
  /\ ev' = [kind |-> "load", img |-> i, pre |-> Level(i)]
  /\ UNCHANGED <<fallbackLevel, srcAttr, native, hidden, placeholders, placeholderLabel,
                 errorPlaceholders, fallbackStats>>

\* ---------------------------------------------------- Lazy-Load Scheduler
\* const imageUrl = img.dataset.src || img.src
ImageUrl(i) == IF Truthy(dataSrc[i]) THEN dataSrc[i] ELSE Resolve(srcAttr[i])

\* the part of loadImage(img) that runs at the call, for the imgs of S (one
\* call each): the loading tag and the temporary Image probe
StartsProbe(i) == ImageUrl(i) \notin loadedImages

loadImage(S) ==
  /\ classes' = [i \in Imgs |->
       IF i \in S /\ StartsProbe(i) THEN classes[i] \cup {"loading"} ELSE classes[i]]
  /\ probes' = [i \in Imgs |->
       IF i \in S /\ StartsProbe(i)
       THEN [probes[i] EXCEPT ![ImageUrl(i)] = @ + 1]
       ELSE probes[i]]

\* the img exists: the built img is created by init or after it
Exists(i) == i \in page /\ (Built(i) => initDone)

Idle == dispatch = <<>>

\* a step that runs neither the fallback handler nor the load handler
NoEvent == [kind |-> "none", img |-> "pic", pre |-> 0]

\* document.querySelectorAll('img[loading="lazy"], .lazy-image')
LazyImages == {i \in page : LazyMarkup(i) /\ attached[i]}

\* loadAllImages with querySelector in place of querySelectorAll: only the
\* first lazy img is loaded
loadAllImages_FirstOnly ==
  loadImage(IF LazyImages = {} THEN {} ELSE {CHOOSE i \in LazyImages : TRUE})

\* loadAllImages(): loadImage for every lazy img of the document
loadAllImages == loadImage(LazyImages)

\* setupLazyLoading()
setupLazyLoading ==
  IF ~hasIO
  THEN /\ loadAllImages
       /\ UNCHANGED <<observerCreated, observed>>
  ELSE /\ observerCreated' = TRUE
       /\ classes' = [i \in Imgs |->
            IF i \in LazyImages THEN classes[i] \cup {"loading"} ELSE classes[i]]
       /\ observed' = LazyImages
       /\ UNCHANGED probes

\* init() after loadImageMetadata: setupLazyLoading, setupImageErrorHandling
\* (the document-level error listener) and the later setup steps
FinishInit ==
  /\ ~initDone
  /\ Idle
  /\ setupLazyLoading
  /\ initDone' = TRUE
  /\ ev' = NoEvent
  /\ UNCHANGED <<builderVars, serviceVars, dataCategory, dataImageName, pictureData, rejected, overflowed>>
  /\ UNCHANGED <<page, hasIO, attached, loadedImages, srcAttr, dataSrc, fallbackSrc,
                 fallbackLevel, hidden, nodeClasses, placeholders, placeholderLabel,
                 errorPlaceholders, fallbackStats, native, dispatch, explicit, calls>>

\* the callback without this.observer.unobserve(entry.target)
Intersect_NoUnobserve(i) ==
  /\ Idle
  /\ i \in observed
  /\ loadImage({i})
  /\ observed' = observed
  /\ ev' = NoEvent
  /\ UNCHANGED <<builderVars, serviceVars, dataCategory, dataImageName, pictureData, rejected, overflowed>>
  /\ UNCHANGED <<page, hasIO, attached, initDone, observerCreated, loadedImages, srcAttr,
                 dataSrc, fallbackSrc, fallbackLevel, hidden, nodeClasses,
                 placeholders, placeholderLabel, errorPlaceholders, fallbackStats, native, dispatch,
                 explicit, calls>>

\* the IntersectionObserver callback with an intersecting entry for img
Intersect(i) ==
  /\ Idle
  /\ i \in observed
  /\ loadImage({i})
  /\ observed' = observed \ {i}
  /\ ev' = NoEvent
  /\ UNCHANGED <<builderVars, serviceVars, dataCategory, dataImageName, pictureData, rejected, overflowed>>
  /\ UNCHANGED <<page, hasIO, attached, initDone, observerCreated, loadedImages, srcAttr,
                 dataSrc, fallbackSrc, fallbackLevel, hidden, nodeClasses,
                 placeholders, placeholderLabel, errorPlaceholders, fallbackStats, native, dispatch,
                 explicit, calls>>

\* a page script calls manager.loadImage(img) on a picture it has built
ExplicitLoadImage(i) ==
  /\ Idle
  /\ initDone
  /\ Built(i)
  /\ i \in page
  /\ explicit < MaxExplicit
  /\ loadImage({i})
  /\ explicit' = explicit + 1
  /\ ev' = NoEvent
  /\ UNCHANGED <<builderVars, serviceVars, dataCategory, dataImageName, pictureData, rejected, overflowed>>
  /\ UNCHANGED <<page, hasIO, attached, initDone, observerCreated, observed, loadedImages,
                 srcAttr, dataSrc, fallbackSrc, fallbackLevel, hidden, nodeClasses,
                 placeholders, placeholderLabel, errorPlaceholders, fallbackStats, native, dispatch,
                 calls>>

\* tempImg.onload of loadImage
ProbeLoad(i, u) ==
  /\ Idle
  /\ probes[i][u] > 0
  /\ probes' = [probes EXCEPT ![i][u] = @ - 1]
  /\ srcAttr' = [srcAttr EXCEPT ![i] = u]
  /\ native' = [native EXCEPT ![i] = u]
  /\ classes' = [classes EXCEPT ![i] = (@ \ {"loading"}) \cup {"loaded"}]
  /\ loadedImages' = loadedImages \cup {u}
  /\ ev' = NoEvent
  /\ UNCHANGED <<builderVars, serviceVars, dataCategory, dataImageName, pictureData, rejected, overflowed>>
  /\ UNCHANGED <<page, hasIO, attached, initDone, observerCreated, observed, dataSrc,
                 fallbackSrc, fallbackLevel, hidden, nodeClasses, placeholders, placeholderLabel,
                 errorPlaceholders, fallbackStats, dispatch, explicit, calls>>

\* tempImg.onerror of loadImage: the handler runs, then the promise that
\* loadImage returned is rejected
ProbeError(i, u) ==
  /\ Idle
  /\ probes[i][u] > 0
  /\ probes' = [probes EXCEPT ![i][u] = @ - 1]
  /\ handleEnhancedImageError(i)
  /\ rejected' = rejected \cup {i}
  /\ UNCHANGED <<builderVars, serviceVars, dataCategory, dataImageName, pictureData, overflowed>>
  /\ UNCHANGED <<page, hasIO, attached, initDone, observerCreated, observed, loadedImages,
                 dataSrc, fallbackSrc, dispatch, explicit, calls>>

\* the element's own fetch succeeds: a load event on the img
NativeLoad(i) ==
  /\ Idle
  /\ Exists(i)
  /\ Truthy(native[i])
  /\ native' = [native EXCEPT ![i] = Absent]
  /\ dispatch' = IF Built(i) THEN <<[kind |-> "load", img |-> i]>> ELSE <<>>
  /\ ev' = NoEvent
  /\ UNCHANGED <<builderVars, serviceVars, dataCategory, dataImageName, pictureData, rejected, overflowed>>
  /\ UNCHANGED <<page, hasIO, attached, initDone, observerCreated, observed, loadedImages,
                 srcAttr, dataSrc, fallbackSrc, fallbackLevel, classes, hidden,
                 nodeClasses, placeholders, placeholderLabel, errorPlaceholders, fallbackStats,
                 probes, explicit, calls>>

\* the element's own fetch fails: an error event on the img, delivered to the
\* capturing document listener first (if the img is in the document and the
\* listener is registered), then to the img's own listener or inline handler
NativeError(i) ==
  /\ Idle
  /\ Exists(i)
  /\ Truthy(native[i])
  /\ native' = [native EXCEPT ![i] = Absent]
  /\ dispatch' = (IF initDone /\ attached[i] THEN <<[kind |-> "error", img |-> i]>> ELSE <<>>)
                 \o (IF Built(i) THEN <<[kind |-> "error", img |-> i]>> ELSE <<>>)
                 \o (IF Inline(i) THEN <<[kind |-> "inline", img |-> i]>> ELSE <<>>)
  /\ ev' = NoEvent
  /\ UNCHANGED <<builderVars, serviceVars, dataCategory, dataImageName, pictureData, rejected, overflowed>>
  /\ UNCHANGED <<page, hasIO, attached, initDone, observerCreated, observed, loadedImages,
                 srcAttr, dataSrc, fallbackSrc, fallbackLevel, classes, hidden,
                 nodeClasses, placeholders, placeholderLabel, errorPlaceholders, fallbackStats,
                 probes, explicit, calls>>

\* an error listener that also drops the img's data-image-name
RunErrorListener_ClearsIdentity ==
  /\ dispatch # <<>>
  /\ Head(dispatch).kind = "error"
  /\ dispatch' = Tail(dispatch)
  /\ handleEnhancedImageError(Head(dispatch).img)
  /\ dataImageName' = [dataImageName EXCEPT ![Head(dispatch).img] = <<"undefined">>]
  /\ UNCHANGED <<builderVars, serviceVars, dataCategory, pictureData, rejected, overflowed>>
  /\ UNCHANGED <<page, hasIO, attached, initDone, observerCreated, observed, loadedImages,
                 dataSrc, fallbackSrc, probes, explicit, calls>>

\* the next error listener of the event being dispatched runs
RunErrorListener ==
  /\ dispatch # <<>>
  /\ Head(dispatch).kind = "error"
  /\ dispatch' = Tail(dispatch)
  /\ handleEnhancedImageError(Head(dispatch).img)
  /\ UNCHANGED <<builderVars, serviceVars, dataCategory, dataImageName, pictureData, rejected, overflowed>>
  /\ UNCHANGED <<page, hasIO, attached, initDone, observerCreated, observed, loadedImages,
                 dataSrc, fallbackSrc, probes, explicit, calls>>

\* ------------------------------------------------ global inline handlers
\* img.closest(selector) for a selector given as a set of classes
RECURSIVE FirstWithClass(_, _)
FirstWithClass(s, sel) ==
  IF s = <<>> THEN ""
  ELSE IF NodeClass(Head(s)) \in sel THEN Head(s)
  ELSE FirstWithClass(Tail(s), sel)

ClosestIn(i, sel) == FirstWithClass(Ancestors(i), sel)

\* the branch of the switch in which a call of handleAboutImageError or
\* handleReviewImageError ends: at level 0 without a distinct alternate the
\* function calls itself with nothing changed, until the stack is exhausted
RECURSIVE InlineBranch(_, _, _)
InlineBranch(lvl, distinct, stack) ==
  IF stack = 0 THEN "overflow"
  ELSE CASE lvl = 0 -> IF distinct THEN "secondary"
                       ELSE InlineBranch(lvl, distinct, stack - 1)
         [] lvl = 1 -> "tertiary"
         [] OTHER -> "final"

\* the container classes the about handler adds at level 1 and at level 2+
AboutTertiary(i) ==
  IF ClosestIn(i, {"team-member"}) # ""
  THEN {<<ClosestIn(i, {"team-member"}), "team-fallback">>}
  ELSE IF ClosestIn(i, {"team-primary"}) # ""
  THEN {<<ClosestIn(i, {"team-primary"}), "team-fallback">>}
  ELSE {}

AboutFinal(i) ==
  LET c == ClosestIn(i, {"team-member", "team-primary", "about-team-gallery"}) IN
  IF c # "" THEN {<<c, "image-failed">>} ELSE {}

\* the container classes the review handler adds at level 1 and at level 2+
ReviewTertiary(i) ==
  LET card == ClosestIn(i, {"review-card enhanced"})
      bg == ClosestIn(i, {"review-background"})
  IN IF card # "" /\ bg # ""
     THEN {<<bg, "review-fallback">>, <<card, "review-no-image">>}
     ELSE {}

ReviewFinal(i) ==
  LET card == ClosestIn(i, {"review-card enhanced"}) IN
  IF card # "" THEN {<<card, "review-image-failed">>} ELSE {}

\* the container classes after adding the <<node, class>> pairs
WithTags(pairs) ==
  [n \in Nodes |-> nodeClasses[n] \cup {t[2] : t \in {q \in pairs : q[1] = n}}]

\* the switch and the tracking shared by the two global handlers
InlineImageError(i, defaultCategory, tertiary, final) ==
  LET lvl == Level(i)
      distinct == Truthy(fallbackSrc[i]) /\ fallbackSrc[i] # Resolve(srcAttr[i])
      branch == InlineBranch(lvl, distinct, MaxStack)
      category == IF dataCategory[i] = <<"undefined">> THEN defaultCategory
                  ELSE dataCategory[i]
      imageName == IF dataImageName[i] = <<"undefined">> THEN <<"unknown">>
                   ELSE dataImageName[i]
  IN
  /\ CASE branch = "overflow" ->
            /\ overflowed' = overflowed \cup {i}
            /\ ev' = NoEvent
            /\ UNCHANGED <<fallbackLevel, srcAttr, native, classes, hidden,
                           nodeClasses, fallbackStats>>
       [] branch = "secondary" ->
            /\ fallbackLevel' = [fallbackLevel EXCEPT ![i] = "1"]
            /\ srcAttr' = [srcAttr EXCEPT ![i] = fallbackSrc[i]]
            /\ native' = [native EXCEPT ![i] = fallbackSrc[i]]
            /\ classes' = [classes EXCEPT ![i] = @ \cup {"fallback-secondary"}]
            /\ UNCHANGED <<hidden, nodeClasses>>
       [] branch = "tertiary" ->
            /\ fallbackLevel' = [fallbackLevel EXCEPT ![i] = "2"]
            /\ hidden' = [hidden EXCEPT ![i] = TRUE]
            /\ classes' = [classes EXCEPT ![i] = @ \cup {"fallback-tertiary"}]
            /\ nodeClasses' = WithTags(tertiary)
            /\ UNCHANGED <<srcAttr, native>>
       [] OTHER ->
            /\ fallbackLevel' = [fallbackLevel EXCEPT ![i] = "3"]
            /\ hidden' = [hidden EXCEPT ![i] = TRUE]
            /\ classes' = [classes EXCEPT ![i] = @ \cup {"fallback-final"}]
            /\ nodeClasses' = WithTags(final)
            /\ UNCHANGED <<srcAttr, native>>
  /\ branch # "overflow" =>
       /\ fallbackStats' = trackFallbackUsage(fallbackStats, category, imageName, lvl)
       /\ ev' = [kind |-> "error", img |-> i, pre |-> lvl]
       /\ UNCHANGED overflowed
  /\ UNCHANGED <<placeholders, placeholderLabel, errorPlaceholders>>

\* handleAboutImageError(img)
handleAboutImageError(i) ==
  InlineImageError(i, <<"about">>, AboutTertiary(i), AboutFinal(i))

\* handleReviewImageError(img)
handleReviewImageError(i) ==
  InlineImageError(i, <<"reviews">>, ReviewTertiary(i), ReviewFinal(i))

\* the inline onerror handler of the event being dispatched runs
RunInlineListener ==
  /\ dispatch # <<>>
  /\ Head(dispatch).kind = "inline"
  /\ dispatch' = Tail(dispatch)
  /\ IF Head(dispatch).img = "member"
     THEN handleAboutImageError(Head(dispatch).img)
     ELSE handleReviewImageError(Head(dispatch).img)
  /\ UNCHANGED <<builderVars, serviceVars, dataCategory, dataImageName, pictureData, rejected>>
  /\ UNCHANGED <<page, hasIO, attached, initDone, observerCreated, observed, loadedImages,
                 dataSrc, fallbackSrc, probes, explicit, calls>>

\* ------------------------------------------------- service cards
\* handleServiceImageFinalFallback(img): the gradient goes on the
\* .service-background when the img has one inside a .service-card-enhanced;
\* with a service icon the content of the background is replaced, which takes
\* the img out of the document
handleServiceImageFinalFallback(i) ==
  LET serviceCard == ClosestIn(i, {"service-card"})
      serviceBackground == ClosestIn(i, {"service-background"})
  IN
  /\ fallbackLevel' = [fallbackLevel EXCEPT ![i] = "2"]
  /\ hidden' = [hidden EXCEPT ![i] = TRUE]
  /\ IF serviceBackground # "" /\ serviceCard # ""
     THEN /\ nodeClasses' = [nodeClasses EXCEPT ![serviceBackground] =
                               @ \cup {"service-fallback-gradient"}]
          /\ attached' = IF serviceIcon THEN [attached EXCEPT ![i] = FALSE] ELSE attached
     ELSE UNCHANGED <<nodeClasses, attached>>
  /\ UNCHANGED <<srcAttr, native, classes>>

\* handleServiceImageError(img)
handleServiceImageError(i) ==
  /\ IF Level(i) = 0 /\ Truthy(fallbackSrc[i]) /\ fallbackSrc[i] # Resolve(srcAttr[i])
     THEN /\ fallbackLevel' = [fallbackLevel EXCEPT ![i] = "1"]
          /\ srcAttr' = [srcAttr EXCEPT ![i] = fallbackSrc[i]]
          /\ native' = [native EXCEPT ![i] = fallbackSrc[i]]
          /\ classes' = [classes EXCEPT ![i] = @ \cup {"fallback-secondary"}]
          /\ UNCHANGED <<hidden, nodeClasses, attached>>
     ELSE handleServiceImageFinalFallback(i)
  /\ ev' = [kind |-> "service", img |-> i, pre |-> Level(i)]

\* the site script's IntersectionObserver callback with an intersecting entry
ServiceIntersect(i) ==
  /\ Idle
  /\ i \in serviceObserved
  /\ classes' = [classes EXCEPT ![i] = @ \cup {"loading"}]
  /\ serviceProbes' = [serviceProbes EXCEPT ![i] = @ + 1]
  /\ serviceObserved' = serviceObserved \ {i}
  /\ ev' = NoEvent
  /\ UNCHANGED <<builderVars, serviceIcon, dataCategory, dataImageName, pictureData, rejected,
                 overflowed>>
  /\ UNCHANGED <<page, hasIO, attached, initDone, observerCreated, observed, loadedImages,
                 srcAttr, dataSrc, fallbackSrc, fallbackLevel, hidden, nodeClasses,
                 placeholders, placeholderLabel, errorPlaceholders, fallbackStats, native,
                 probes, dispatch, explicit, calls>>

\* tempImg.onload of the site script's probe
ServiceProbeLoad(i) ==
  /\ Idle
  /\ serviceProbes[i] > 0
  /\ serviceProbes' = [serviceProbes EXCEPT ![i] = @ - 1]
  /\ classes' = [classes EXCEPT ![i] = (@ \ {"loading"}) \cup {"loaded"}]
  /\ ev' = NoEvent
  /\ UNCHANGED <<builderVars, serviceObserved, serviceIcon, dataCategory, dataImageName,
                 pictureData, rejected, overflowed>>
  /\ UNCHANGED <<page, hasIO, attached, initDone, observerCreated, observed, loadedImages,
                 srcAttr, dataSrc, fallbackSrc, fallbackLevel, hidden, nodeClasses,
                 placeholders, placeholderLabel, errorPlaceholders, fallbackStats, native,
                 probes, dispatch, explicit, calls>>

\* tempImg.onerror of the site script's probe
ServiceProbeError(i) ==
  /\ Idle
  /\ serviceProbes[i] > 0
  /\ serviceProbes' = [serviceProbes EXCEPT ![i] = @ - 1]
  /\ handleServiceImageError(i)
  /\ UNCHANGED <<builderVars, serviceObserved, serviceIcon, dataCategory, dataImageName,
                 pictureData, rejected, overflowed>>
  /\ UNCHANGED <<page, hasIO, initDone, observerCreated, observed, loadedImages,
                 dataSrc, fallbackSrc, placeholders, placeholderLabel, errorPlaceholders,
                 fallbackStats, probes, dispatch, explicit, calls>>

\* the load listener of the event being dispatched runs
RunLoadListener ==
  /\ dispatch # <<>>
  /\ Head(dispatch).kind = "load"
  /\ dispatch' = Tail(dispatch)
  /\ handleImageLoad(Head(dispatch).img)
  /\ UNCHANGED <<builderVars, serviceVars, dataCategory, dataImageName, pictureData, rejected, overflowed>>
  /\ UNCHANGED <<page, hasIO, attached, initDone, observerCreated, observed, loadedImages,
                 dataSrc, fallbackSrc, probes, explicit, calls>>

\* ------------------------------------------------------------- metadata
\* An ImageRecord: src, webp and optimized are URLs (Absent when the field is
\* missing), alt is a string of tokens (<<>> when missing), priority a string.
\* this.imageMetadata is [set, cats, seoDefault]: set is FALSE for null, cats
\* maps a category to its records by name, seoDefault is
\* seo.openGraph.defaultImage.
NoMetadata == [set |-> FALSE, cats |-> EmptyMap, seoDefault |-> Absent]

\* createFallbackMetadata()
createFallbackMetadata ==
  [set |-> TRUE,
   cats |-> [c \in {<<"hero">>, <<"services">>, <<"about">>, <<"reviews">>} |-> EmptyMap],
   seoDefault |-> Rel("hero-main-plumber.png")]

\* the metadata of the test suites: hero/test-image with priority high,
\* services/service-test with priority medium
FixtureMetadata ==
  [set |-> TRUE,
   cats |-> [c \in {<<"hero">>, <<"services">>} |->
     IF c = <<"hero">>
     THEN [n \in {<<"test", "-", "image">>} |->
            [src |-> Rel("test-image.png"), webp |-> Rel("test-image.webp"),
             optimized |-> Rel("test-image-opt.png"),
             alt |-> <<"Test hero image">>, priority |-> "high"]]
     ELSE [n \in {<<"service", "-", "test">>} |->
            [src |-> Rel("service-test.png"), webp |-> Rel("service-test.webp"),
             optimized |-> Rel("service-test-opt.png"),
             alt |-> <<"Test service image">>, priority |-> "medium"]]],
   seoDefault |-> Absent]

\* a metadata file whose records have a primary source and nothing else:
\* services/service-test and backgrounds/tub-and-sink
SparseMetadata ==
  [set |-> TRUE,
   cats |-> [c \in {<<"services">>, <<"backgrounds">>} |->
     IF c = <<"services">>
     THEN [n \in {<<"service", "-", "test">>} |->
            [src |-> Rel("service-test.png"), webp |-> Absent, optimized |-> Absent,
             alt |-> <<>>, priority |-> ""]]
     ELSE [n \in {<<"tub", "-", "and", "-", "sink">>} |->
            [src |-> Rel("tub-and-sink.png"), webp |-> Absent, optimized |-> Absent,
             alt |-> <<>>, priority |-> ""]]],
   seoDefault |-> Absent]

\* what scripts/image-metadata.json can hold
MetadataFiles == {FixtureMetadata, SparseMetadata}

\* how the fetch of loadImageMetadata can end
FetchOutcomes == {"ok", "fetch-fails", "parse-fails"}

\* this.imageMetadata?.[category]?.[imageName] is truthy
HasRecord(meta, category, imageName) ==
  /\ meta.set
  /\ category \in DOMAIN meta.cats
  /\ imageName \in DOMAIN meta.cats[category]

\* loadImageMetadata() without its catch: the failure is thrown to init()
loadImageMetadata_NoCatch(outcome, file) ==
  IF outcome = "ok"
  THEN [meta |-> file, threw |-> FALSE]
  ELSE [meta |-> NoMetadata, threw |-> TRUE]

\* loadImageMetadata(): the value it leaves in this.imageMetadata and whether
\* it throws; a failed fetch and a body that is not JSON both end in the catch
loadImageMetadata(outcome, file) ==
  IF outcome = "ok"
  THEN [meta |-> file, threw |-> FALSE]
  ELSE [meta |-> createFallbackMetadata, threw |-> FALSE]

\* the setup steps of init() after loadImageMetadata, in the order of the code
InitOrder ==
  <<"setupLazyLoading", "setupImageErrorHandling", "setupWebPSupport",
    "setupImagePreloading", "enhanceExistingImages", "monitorImagePerformance">>

\* --------------------------------------------------- Picture Element Builder
\* imageName.replace(/-/, ' '): only the first hyphen
ReplaceHyphens_FirstOnly(imageName) ==
  [k \in 1..Len(imageName) |->
     IF imageName[k] = "-" /\ \A j \in 1..(k - 1) : imageName[j] # "-"
     THEN " " ELSE imageName[k]]

\* imageName.replace(/-/g, ' ')
ReplaceHyphens(imageName) ==
  [k \in 1..Len(imageName) |-> IF imageName[k] = "-" THEN " " ELSE imageName[k]]

\* generateAltText(category, imageName)
generateAltText(category, imageName) ==
  CASE category = <<"hero">> ->
         <<"Professional plumbing services Milwaukee", " - ">> \o ReplaceHyphens(imageName)
    [] category = <<"services">> ->
         ReplaceHyphens(imageName) \o <<" - ", "Radius Works Milwaukee plumbing services">>
    [] category = <<"about">> ->
         <<"Radius Works team", " - ">> \o ReplaceHyphens(imageName)
    [] category = <<"reviews">> ->
         <<"Customer satisfaction", " - ">> \o ReplaceHyphens(imageName)
    [] OTHER -> <<"Radius Works", " - ">> \o ReplaceHyphens(imageName)

\* the children of a picture are [tag, format, url], in document order
SourceChild(format, u) == [tag |-> "source", format |-> format, url |-> u]
ImgChild(u) == [tag |-> "img", format |-> "", url |-> u]

\* createFallbackPictureElement(category, imageName, '', options)
createFallbackPictureElement(category, imageName, options) ==
  [classes |-> {"enhanced-picture", "fallback-picture"},
   category |-> category,
   imageName |-> imageName,
   children |-> <<ImgChild(getFallbackImage(category))>>,
   img |-> [src |-> getFallbackImage(category),
            alt |-> generateAltText(category, imageName),
            loading |-> IF options.eager THEN "eager" ELSE "lazy",
            classes |-> {"enhanced-image", "fallback-image"},
            fallbackSrc |-> getFallbackImage(category),
            category |-> category,
            imageName |-> imageName]]

\* createPictureElement with the img inserted before the sources
createPictureElement_ImgFirst(meta, webp, category, imageName, options) ==
  IF ~HasRecord(meta, category, imageName)
  THEN createFallbackPictureElement(category, imageName, options)
  ELSE
    LET imageData == meta.cats[category][imageName] IN
    [classes |-> {"enhanced-picture"},
     category |-> category,
     imageName |-> imageName,
     children |->
       <<ImgChild(imageData.src)>>
       \o (IF Truthy(imageData.webp) /\ webp
           THEN <<SourceChild("webp", imageData.webp)>> ELSE <<>>)
       \o (IF Truthy(imageData.optimized)
           THEN <<SourceChild("standard", imageData.optimized)>> ELSE <<>>),
     img |-> [src |-> imageData.src,
              alt |-> IF imageData.alt # <<>> THEN imageData.alt
                      ELSE generateAltText(category, imageName),
              loading |-> IF imageData.priority = "high" \/ options.eager
                          THEN "eager" ELSE "lazy",
              classes |-> {"enhanced-image"},
              fallbackSrc |-> getFallbackImage(category),
              category |-> category,
              imageName |-> imageName]]

\* createPictureElement reading the loading mode from options.eager only
createPictureElement_NoPriority(meta, webp, category, imageName, options) ==
  IF ~HasRecord(meta, category, imageName)
  THEN createFallbackPictureElement(category, imageName, options)
  ELSE
    LET imageData == meta.cats[category][imageName] IN
    [classes |-> {"enhanced-picture"},
     category |-> category,
     imageName |-> imageName,
     children |->
       (IF Truthy(imageData.webp) /\ webp
        THEN <<SourceChild("webp", imageData.webp)>> ELSE <<>>)
       \o (IF Truthy(imageData.optimized)
           THEN <<SourceChild("standard", imageData.optimized)>> ELSE <<>>)
       \o <<ImgChild(imageData.src)>>,
     img |-> [src |-> imageData.src,
              alt |-> IF imageData.alt # <<>> THEN imageData.alt
                      ELSE generateAltText(category, imageName),
              loading |-> IF options.eager THEN "eager" ELSE "lazy",
              classes |-> {"enhanced-image"},
              fallbackSrc |-> getFallbackImage(category),
              category |-> category,
              imageName |-> imageName]]

\* createPictureElement generating the alt text whatever the record holds
createPictureElement_AltIgnored(meta, webp, category, imageName, options) ==
  IF ~HasRecord(meta, category, imageName)
  THEN createFallbackPictureElement(category, imageName, options)
  ELSE
    LET imageData == meta.cats[category][imageName] IN
    [classes |-> {"enhanced-picture"},
     category |-> category,
     imageName |-> imageName,
     children |->
       (IF Truthy(imageData.webp) /\ webp
        THEN <<SourceChild("webp", imageData.webp)>> ELSE <<>>)
       \o (IF Truthy(imageData.optimized)
           THEN <<SourceChild("standard", imageData.optimized)>> ELSE <<>>)
       \o <<ImgChild(imageData.src)>>,
     img |-> [src |-> imageData.src,
              alt |-> generateAltText(category, imageName),
              loading |-> IF imageData.priority = "high" \/ options.eager
                          THEN "eager" ELSE "lazy",
              classes |-> {"enhanced-image"},
              fallbackSrc |-> getFallbackImage(category),
              category |-> category,
              imageName |-> imageName]]

\* createPictureElement(category, imageName, '', options), with the metadata
\* and the result of checkWebPSupport() as arguments
createPictureElement(meta, webp, category, imageName, options) ==
  IF ~HasRecord(meta, category, imageName)
  THEN createFallbackPictureElement(category, imageName, options)
  ELSE
    LET imageData == meta.cats[category][imageName] IN
    [classes |-> {"enhanced-picture"},
     category |-> category,
     imageName |-> imageName,
     children |->
       (IF Truthy(imageData.webp) /\ webp
        THEN <<SourceChild("webp", imageData.webp)>> ELSE <<>>)
       \o (IF Truthy(imageData.optimized)
           THEN <<SourceChild("standard", imageData.optimized)>> ELSE <<>>)
       \o <<ImgChild(imageData.src)>>,
     img |-> [src |-> imageData.src,
              alt |-> IF imageData.alt # <<>> THEN imageData.alt
                      ELSE generateAltText(category, imageName),
              loading |-> IF imageData.priority = "high" \/ options.eager
                          THEN "eager" ELSE "lazy",
              classes |-> {"enhanced-image"},
              fallbackSrc |-> getFallbackImage(category),
              category |-> category,
              imageName |-> imageName]]

\* getOptimizedImageSrc without the default of its format parameter
getOptimizedImageSrc_NoDefault(meta, category, imageName, format) ==
  IF ~meta.set \/ category \notin DOMAIN meta.cats
  THEN [isNull |-> TRUE, url |-> Absent]
  ELSE IF imageName \notin DOMAIN meta.cats[category]
  THEN [isNull |-> TRUE, url |-> Absent]
  ELSE [isNull |-> FALSE,
        url |-> IF format = "webp"
                THEN meta.cats[category][imageName].webp
                ELSE meta.cats[category][imageName].optimized]

\* getOptimizedImageSrc(category, imageName, format): null, or the value of
\* the record's field; format "undefined" is the omitted argument
getOptimizedImageSrc(meta, category, imageName, format) ==
  LET f == IF format = "undefined" THEN "webp" ELSE format IN
  IF ~meta.set \/ category \notin DOMAIN meta.cats
  THEN [isNull |-> TRUE, url |-> Absent]
  ELSE IF imageName \notin DOMAIN meta.cats[category]
  THEN [isNull |-> TRUE, url |-> Absent]
  ELSE [isNull |-> FALSE,
        url |-> IF f = "webp"
                THEN meta.cats[category][imageName].webp
                ELSE meta.cats[category][imageName].optimized]

\* getOptimizedAltText(category, imageName)
getOptimizedAltText(meta, category, imageName) ==
  IF ~meta.set \/ category \notin DOMAIN meta.cats
  THEN <<>>
  ELSE IF imageName \in DOMAIN meta.cats[category]
  THEN meta.cats[category][imageName].alt
  ELSE <<>>

\* the record testFallbackSystem writes into the metadata
TestData ==
  [src |-> Rel("non-existent-primary.jpg"), webp |-> Rel("non-existent-primary.webp"),
   optimized |-> Rel("non-existent-optimized.jpg"),
   alt |-> <<"Test image for fallback system">>, priority |-> ""]

\* m[k] = v for a map that may not have the key k yet
Put(m, k, v) == [x \in DOMAIN m \cup {k} |-> IF x = k THEN v ELSE m[x]]

\* delete m[k]
Delete(m, k) == [x \in DOMAIN m \ {k} |-> m[x]]

\* the metadata after testFallbackSystem has written TestData into it
WithTestData(meta, category, imageName) ==
  LET cat == IF category \in DOMAIN meta.cats THEN meta.cats[category] ELSE EmptyMap IN
  [meta EXCEPT !.cats = Put(meta.cats, category, Put(cat, imageName, TestData))]

\* the metadata after the cleanup timer: delete this.imageMetadata[category][imageName];
\* when the metadata has been replaced by one without the category, the
\* delete throws in the timer and nothing changes
WithoutTestData(meta, category, imageName) ==
  IF category \in DOMAIN meta.cats
  THEN [meta EXCEPT !.cats = Put(meta.cats, category, Delete(meta.cats[category], imageName))]
  ELSE meta

\* no call of the builder's interface yet
NoCall ==
  [op |-> "none", category |-> <<>>, imageName |-> <<>>, eager |-> FALSE,
   meta |-> NoMetadata, url |-> Absent,
   unit |-> createFallbackPictureElement(<<>>, <<>>, [eager |-> FALSE]),
   format |-> "", isNull |-> FALSE, text |-> <<>>]

\* the picture init builds for the page: the img "pic"
PicPicture(b) ==
  IF b.src = getFallbackImage(Category("pic"))
  THEN createFallbackPictureElement(Category("pic"), ImageName("pic"), [eager |-> FALSE])
  ELSE createPictureElement(
         [set |-> TRUE,
          cats |-> [c \in {Category("pic")} |-> [n \in {ImageName("pic")} |->
                      [src |-> b.src, webp |-> Absent, optimized |-> Absent,
                       alt |-> <<>>, priority |-> "medium"]]],
          seoDefault |-> Absent],
         FALSE, Category("pic"), ImageName("pic"), [eager |-> FALSE])

\* the built img of the page has loading mode lazy: enhanceExistingImages
\* passes eager only for an img marked loading="eager", and the record of the
\* page's picture has no high priority
BuiltLazy(i) ==
  /\ Built(i)
  /\ \A b \in PicProfiles : PicPicture(b).img.loading = "lazy"

\* the type attributes of the sources in the pictures of the page markup
MarkupSourceTypes == {"image/webp", "image/jpeg"}

\* the imgs of the markup that carry data-enhance
EnhanceTargets ==
  {[category |-> <<"hero">>, imageName |-> <<"test", "-", "image">>, eager |-> FALSE],
   [category |-> <<"services">>, imageName |-> <<"service", "-", "test">>, eager |-> TRUE]}

\* setupWebPSupport() leaving the markup as it is
setupWebPSupport_KeepsSources(sources, webp) == sources

\* setupWebPSupport(): the sources of the markup it leaves
setupWebPSupport(sources, webp) ==
  IF ~webp THEN sources \ {"image/webp"} ELSE sources

\* enhanceExistingImages(): the pictures that replace the imgs with data-enhance
enhanceExistingImages(meta, webp) ==
  {[origin |-> "enhance",
    unit |-> createPictureElement(meta, webp, t.category, t.imageName, [eager |-> t.eager])] :
     t \in EnhanceTargets}

\* ------------------------------------------------------------ specification
\* the document and the manager's lifecycle state when the script starts
LifecycleInitOn(pages) ==
  /\ page \in pages
  /\ hasIO \in BOOLEAN
  /\ attached \in {[i \in Imgs |-> IF Built(i) /\ i \in page THEN b ELSE TRUE] : b \in BOOLEAN}
  /\ initDone = FALSE
  /\ observerCreated = FALSE
  /\ observed = {}
  /\ loadedImages = {}
  /\ \E p \in IF "card" \in page THEN CardProfiles ELSE {CHOOSE r \in CardProfiles : TRUE},
        b \in IF "pic" \in page THEN PicProfiles ELSE {CHOOSE r \in PicProfiles : TRUE},
        q \in IF \E i \in page : Inline(i) \/ ServiceTile(i)
              THEN InlineAlternates ELSE {Absent} :
       /\ srcAttr = [i \in Imgs |-> CASE i \in {"pic", "twin"} -> b.src
                                      [] i = "card" -> p.src
                                      [] OTHER -> Rel("stock.png")]
       /\ dataSrc = [i \in Imgs |-> IF i = "card" THEN p.dataSrc ELSE Absent]
       /\ fallbackSrc = [i \in Imgs |-> CASE i \in {"pic", "twin"} -> b.fallbackSrc
                                          [] i = "card" -> p.fallbackSrc
                                          [] i = "bare" -> Rel("hero-bg.jpg")
                                          [] i \in {"member", "review", "tile"} -> q
                                          [] OTHER -> Absent]
  /\ fallbackLevel = [i \in Imgs |-> ""]
  /\ classes = [i \in Imgs |-> {}]
  /\ hidden = [i \in Imgs |-> FALSE]
  /\ nodeClasses = [n \in Nodes |-> {}]
  /\ placeholders = [n \in Nodes |-> 0]
  /\ errorPlaceholders = [n \in Nodes |-> 0]
  /\ fallbackStats = NoStats
  /\ native = srcAttr
  /\ probes = [i \in Imgs |-> [u \in Urls |-> 0]]
  /\ dispatch = <<>>
  /\ explicit = 0
  /\ calls = <<>>
  /\ ev = NoEvent
  /\ rejected = {}
  /\ overflowed = {}
  /\ placeholderLabel = [n \in Nodes |-> ""]
  /\ dataCategory = [i \in Imgs |-> Category(i)]
  /\ dataImageName = [i \in Imgs |-> ImageName(i)]
  /\ pictureData = [category |-> Category("pic"), imageName |-> ImageName("pic")]
  /\ serviceObserved = IF hasIO THEN {i \in page : ServiceTile(i)} ELSE {}
  /\ serviceProbes = [i \in Imgs |-> 0]
  /\ serviceIcon \in IF \E i \in page : ServiceTile(i) THEN BOOLEAN ELSE {FALSE}

\* the manager right after its construction: init() waits for the metadata
\* fetch; w is what this browser makes checkWebPSupport() return
BuilderInit(w) ==
  /\ imageMetadata = NoMetadata
  /\ fetched = [outcome |-> "", meta |-> NoMetadata]
  /\ initPc = "loading"
  /\ initSteps = <<>>
  /\ webpSupported = w
  /\ markupSources = MarkupSourceTypes
  /\ docUnits = {}
  /\ last = NoCall
  /\ cleanups = {}

LifecycleInit == LifecycleInitOn(Pages)

Init == LifecycleInit /\ BuilderInit(TRUE)

Next ==
  \/ FinishInit
  \/ \E i \in Imgs : Intersect(i)
  \/ \E i \in Imgs : ExplicitLoadImage(i)
  \/ \E i \in Imgs, u \in Urls : ProbeLoad(i, u)
  \/ \E i \in Imgs, u \in Urls : ProbeError(i, u)
  \/ \E i \in Imgs : NativeLoad(i)
  \/ \E i \in Imgs : NativeError(i)
  \/ RunErrorListener
  \/ RunLoadListener

Spec == Init /\ [][Next]_vars

\* --------------------------------------------- Stats Recorder, explicit use
TrackCategories == {<<"hero">>, <<"hero", "/", "x">>}
TrackNames == {<<"x">>, <<"x", "/", "x">>}
TrackLevels == {1, 2}

\* a caller records an occurrence: manager.trackFallbackUsage(c, n, l)
TrackCall(c, n, l) ==
  /\ Len(calls) < MaxTrack
  /\ fallbackStats' = trackFallbackUsage(fallbackStats, c, n, l)
  /\ calls' = Append(calls, [key |-> StatsKey(c, n), level |-> l])
  /\ UNCHANGED <<builderVars, serviceVars, dataCategory, dataImageName, pictureData, rejected, overflowed>>
  /\ UNCHANGED <<page, hasIO, attached, initDone, observerCreated, observed,
                 loadedImages, srcAttr, dataSrc, fallbackSrc, fallbackLevel,
                 classes, hidden, nodeClasses, placeholders, placeholderLabel, errorPlaceholders,
                 native, probes, dispatch, explicit, ev>>

\* manager.resetFallbackStats()
resetFallbackStats ==
  /\ fallbackStats' = [set |-> TRUE, map |-> EmptyMap]
  /\ calls' = <<>>
  /\ UNCHANGED <<builderVars, serviceVars, dataCategory, dataImageName, pictureData, rejected, overflowed>>
  /\ UNCHANGED <<page, hasIO, attached, initDone, observerCreated, observed,
                 loadedImages, srcAttr, dataSrc, fallbackSrc, fallbackLevel,
                 classes, hidden, nodeClasses, placeholders, placeholderLabel, errorPlaceholders,
                 native, probes, dispatch, explicit, ev>>

NextStats ==
  \/ \E c \in TrackCategories, n \in TrackNames, l \in TrackLevels : TrackCall(c, n, l)
  \/ resetFallbackStats

SpecStats == Init /\ [][NextStats]_vars

\* ------------------------------------------- about and review sections
InitInline ==
  /\ LifecycleInitOn(InlinePages)
  /\ BuilderInit(TRUE)

NextInline ==
  \/ FinishInit
  \/ \E i \in Imgs : NativeLoad(i)
  \/ \E i \in Imgs : NativeError(i)
  \/ RunErrorListener
  \/ RunInlineListener

SpecInline == InitInline /\ [][NextInline]_vars

\* ------------------------------------------ two pictures from one record
InitTwins ==
  /\ LifecycleInitOn(TwinPages)
  /\ BuilderInit(TRUE)

NextTwins ==
  \/ FinishInit
  \/ \E i \in Imgs : ExplicitLoadImage(i)
  \/ \E i \in Imgs, u \in Urls : ProbeLoad(i, u)
  \/ \E i \in Imgs, u \in Urls : ProbeError(i, u)
  \/ \E i \in Imgs : NativeLoad(i)
  \/ \E i \in Imgs : NativeError(i)
  \/ RunErrorListener
  \/ RunLoadListener

SpecTwins == InitTwins /\ [][NextTwins]_vars

\* ---------------------------------------------------- the service card
InitService ==
  /\ LifecycleInitOn(ServicePages)
  /\ BuilderInit(TRUE)

NextService ==
  \/ FinishInit
  \/ \E i \in Imgs : Intersect(i)
  \/ \E i \in Imgs, u \in Urls : ProbeLoad(i, u)
  \/ \E i \in Imgs, u \in Urls : ProbeError(i, u)
  \/ \E i \in Imgs : NativeLoad(i)
  \/ \E i \in Imgs : NativeError(i)
  \/ RunErrorListener
  \/ \E i \in Imgs : ServiceIntersect(i)
  \/ \E i \in Imgs : ServiceProbeLoad(i)
  \/ \E i \in Imgs : ServiceProbeError(i)

SpecService == InitService /\ [][NextService]_vars

\* the built pictures under load and error events alone: the manager never
\* calls loadImage for an img it has built, so only its listeners act on it
NextHandlers ==
  \/ FinishInit
  \/ \E i \in Imgs : NativeLoad(i)
  \/ \E i \in Imgs : NativeError(i)
  \/ RunErrorListener
  \/ RunLoadListener

SpecHandlers == InitTwins /\ [][NextHandlers]_vars

\* ------------------------------------- placeholder synthesis, explicit use
PlaceholderCategories == {<<"hero">>, <<"services">>}

\* a caller runs manager.createPlaceholderContent(container, category)
CallCreatePlaceholderContent(n, category) ==
  /\ Idle
  /\ placeholders' = createPlaceholderContent(n)
  /\ placeholderLabel' = PlaceholderLabelAfter(n, category)
  /\ ev' = NoEvent
  /\ UNCHANGED <<builderVars, serviceVars, dataCategory, dataImageName, pictureData, rejected, overflowed>>
  /\ UNCHANGED <<page, hasIO, attached, initDone, observerCreated, observed, loadedImages,
                 srcAttr, dataSrc, fallbackSrc, fallbackLevel, classes, hidden,
                 nodeClasses, errorPlaceholders, fallbackStats, native, probes,
                 dispatch, explicit, calls>>

\* a caller runs manager.createErrorPlaceholder(container, category)
CallCreateErrorPlaceholder(n) ==
  /\ Idle
  /\ errorPlaceholders' = createErrorPlaceholder(n)
  /\ ev' = NoEvent
  /\ UNCHANGED <<builderVars, serviceVars, dataCategory, dataImageName, pictureData, rejected, overflowed>>
  /\ UNCHANGED <<page, hasIO, attached, initDone, observerCreated, observed, loadedImages,
                 srcAttr, dataSrc, fallbackSrc, fallbackLevel, classes, hidden,
                 nodeClasses, placeholders, placeholderLabel, fallbackStats, native,
                 probes, dispatch, explicit, calls>>

\* the page with the built picture; failure events and explicit calls
InitPlaceholders ==
  /\ LifecycleInitOn({{"pic", "thumb"}})
  /\ BuilderInit(TRUE)

NextPlaceholders ==
  \/ FinishInit
  \/ \E i \in Imgs : NativeError(i)
  \/ RunErrorListener
  \/ \E n \in {"picture", "wrapper"}, c \in PlaceholderCategories :
       CallCreatePlaceholderContent(n, c)
  \/ \E n \in {"picture", "wrapper"} : CallCreateErrorPlaceholder(n)

SpecPlaceholders == InitPlaceholders /\ [][NextPlaceholders]_vars

\* ------------------------------- metadata store and builder, explicit use
BuildCategories ==
  {<<"hero">>, <<"services">>, <<"about">>, <<"reviews">>, <<"backgrounds">>}
BuildNames ==
  {<<"test", "-", "image">>, <<"service", "-", "test">>, <<"tub", "-", "and", "-", "sink">>}

\* the arguments of testFallbackSystem: its defaults
TestCategories == {<<"hero">>}
TestNames == {<<"test", "-", "image">>}

LifecycleVars ==
  <<page, hasIO, attached, initDone, observerCreated, observed, loadedImages,
    srcAttr, dataSrc, fallbackSrc, fallbackLevel, classes, hidden,
    nodeClasses, placeholders, placeholderLabel, errorPlaceholders, fallbackStats,
    native, probes, dispatch, explicit, calls, ev, rejected, overflowed,
    dataCategory, dataImageName, pictureData, serviceVars>>

\* init(): await this.loadImageMetadata() returns or throws
LoadImageMetadata(outcome, file) ==
  LET r == loadImageMetadata(outcome, file) IN
  /\ initPc = "loading"
  /\ imageMetadata' = r.meta
  /\ fetched' = [outcome |-> outcome, meta |-> r.meta]
  /\ initPc' = IF r.threw THEN "done" ELSE "setup"
  /\ UNCHANGED <<initSteps, webpSupported, last, cleanups, markupSources, docUnits>>
  /\ UNCHANGED LifecycleVars

\* init(): the next setup step of the try block runs
InitStep ==
  LET step == InitOrder[Len(initSteps) + 1] IN
  /\ initPc = "setup"
  /\ initSteps' = Append(initSteps, step)
  /\ initPc' = IF Len(initSteps) + 1 = Len(InitOrder) THEN "done" ELSE "setup"
  /\ markupSources' = IF step = "setupWebPSupport"
                      THEN setupWebPSupport(markupSources, webpSupported)
                      ELSE markupSources
  /\ docUnits' = IF step = "enhanceExistingImages"
                 THEN docUnits \cup enhanceExistingImages(imageMetadata, webpSupported)
                 ELSE docUnits
  /\ UNCHANGED <<imageMetadata, fetched, webpSupported, last, cleanups>>
  /\ UNCHANGED LifecycleVars

\* a caller builds a picture: manager.createPictureElement(c, n, '', {eager: e})
CreatePicture(c, n, e) ==
  /\ last' = [op |-> "createPictureElement", category |-> c, imageName |-> n,
              eager |-> e, meta |-> imageMetadata, url |-> Absent,
              format |-> "", isNull |-> FALSE, text |-> <<>>,
              unit |-> createPictureElement(imageMetadata, webpSupported, c, n,
                                            [eager |-> e])]
  /\ UNCHANGED <<imageMetadata, fetched, initPc, initSteps, webpSupported, cleanups,
                 markupSources, docUnits>>
  /\ UNCHANGED LifecycleVars

\* a caller asks manager.getFallbackImage(c)
GetFallbackImage(c) ==
  /\ last' = [NoCall EXCEPT !.op = "getFallbackImage", !.category = c,
                            !.meta = imageMetadata, !.url = getFallbackImage(c)]
  /\ UNCHANGED <<imageMetadata, fetched, initPc, initSteps, webpSupported, cleanups,
                 markupSources, docUnits>>
  /\ UNCHANGED LifecycleVars

\* the format arguments callers pass; "undefined" is the omitted argument
Formats == {"undefined", "webp", "optimized", "jpeg"}

\* a caller asks manager.getOptimizedImageSrc(c, n, f)
GetOptimizedImageSrc(c, n, f) ==
  LET r == getOptimizedImageSrc(imageMetadata, c, n, f) IN
  /\ last' = [NoCall EXCEPT !.op = "getOptimizedImageSrc", !.category = c,
                            !.imageName = n, !.format = f, !.meta = imageMetadata,
                            !.isNull = r.isNull, !.url = r.url]
  /\ UNCHANGED <<imageMetadata, fetched, initPc, initSteps, webpSupported, cleanups,
                 markupSources, docUnits>>
  /\ UNCHANGED LifecycleVars

\* a caller asks manager.getOptimizedAltText(c, n)
GetOptimizedAltText(c, n) ==
  /\ last' = [NoCall EXCEPT !.op = "getOptimizedAltText", !.category = c,
                            !.imageName = n, !.meta = imageMetadata,
                            !.text = getOptimizedAltText(imageMetadata, c, n)]
  /\ UNCHANGED <<imageMetadata, fetched, initPc, initSteps, webpSupported, cleanups,
                 markupSources, docUnits>>
  /\ UNCHANGED LifecycleVars

\* the metadata a caller assigns: the mock of the test suites
AssignedMetadata == {FixtureMetadata}

\* the caller that constructed the manager assigns manager.imageMetadata = m
\* right after the constructor returns, while the fetch it started is pending
AssignMetadata(m) ==
  /\ fetched.outcome = ""
  /\ imageMetadata' = m
  /\ last' = [NoCall EXCEPT !.op = "assignMetadata", !.meta = m]
  /\ UNCHANGED <<fetched, initPc, initSteps, webpSupported, cleanups, markupSources, docUnits>>
  /\ UNCHANGED LifecycleVars

\* manager.testFallbackSystem(c, n) up to its return; the cleanup is a timer
TestFallbackSystem(c, n) ==
  /\ imageMetadata.set
  /\ imageMetadata' = WithTestData(imageMetadata, c, n)
  /\ last' = [op |-> "testFallbackSystem", category |-> c, imageName |-> n,
              eager |-> FALSE, meta |-> imageMetadata', url |-> Absent,
              format |-> "", isNull |-> FALSE, text |-> <<>>,
              unit |-> createPictureElement(imageMetadata', webpSupported, c, n,
                                            [eager |-> FALSE])]
  /\ cleanups' = cleanups \cup {<<c, n>>}
  /\ docUnits' = docUnits \cup {[origin |-> "test", unit |-> last'.unit]}
  /\ UNCHANGED <<fetched, initPc, initSteps, webpSupported, markupSources>>
  /\ UNCHANGED LifecycleVars

\* the cleanup timer of testFallbackSystem(c, n) fires
Cleanup(c, n) ==
  /\ <<c, n>> \in cleanups
  /\ imageMetadata' = WithoutTestData(imageMetadata, c, n)
  /\ cleanups' = cleanups \ {<<c, n>>}
  /\ docUnits' = {d \in docUnits : d.origin # "test"}
  /\ UNCHANGED <<fetched, initPc, initSteps, webpSupported, last, markupSources>>
  /\ UNCHANGED LifecycleVars

\* one document, either browser
InitBuilder ==
  /\ LifecycleInit
  /\ page = {"card", "thumb"}
  /\ hasIO
  /\ ~Truthy(dataSrc["card"])
  /\ ~Truthy(fallbackSrc["card"])
  /\ \E w \in BOOLEAN : BuilderInit(w)

NextBuilder ==
  \/ \E o \in FetchOutcomes, f \in MetadataFiles : LoadImageMetadata(o, f)
  \/ InitStep
  \/ \E c \in BuildCategories, n \in BuildNames, e \in BOOLEAN : CreatePicture(c, n, e)
  \/ \E c \in BuildCategories : GetFallbackImage(c)
  \/ \E c \in BuildCategories, n \in BuildNames, f \in Formats : GetOptimizedImageSrc(c, n, f)
  \/ \E c \in BuildCategories, n \in BuildNames : GetOptimizedAltText(c, n)
  \/ \E c \in TestCategories, n \in TestNames : TestFallbackSystem(c, n)
  \/ \E c \in TestCategories, n \in TestNames : Cleanup(c, n)

SpecBuilder == InitBuilder /\ [][NextBuilder]_vars

\* the metadata store with a caller that assigns the metadata itself, init's
\* setup steps and the builds
NextStore ==
  \/ \E o \in FetchOutcomes, f \in MetadataFiles : LoadImageMetadata(o, f)
  \/ InitStep
  \/ \E m \in AssignedMetadata : AssignMetadata(m)
  \/ \E c \in BuildCategories, n \in BuildNames, e \in BOOLEAN : CreatePicture(c, n, e)
  \/ \E c \in TestCategories, n \in TestNames : TestFallbackSystem(c, n)
  \/ \E c \in TestCategories, n \in TestNames : Cleanup(c, n)

SpecStore == InitBuilder /\ [][NextStore]_vars

\* ------------------------------------------------------------------ claims
\* the key, count and levels the Stats Recorder holds for an img
KeyOf(i) == StatsKey(Category(i), ImageName(i))
StatsMap(stats) == IF stats.set THEN stats.map ELSE EmptyMap
CountIn(stats, k) == IF k \in DOMAIN StatsMap(stats) THEN StatsMap(stats)[k].count ELSE 0
LevelsIn(stats, k) == IF k \in DOMAIN StatsMap(stats) THEN StatsMap(stats)[k].levels ELSE <<>>
CountOf(i) == CountIn(fallbackStats, KeyOf(i))
LevelsOf(i) == LevelsIn(fallbackStats, KeyOf(i))
Min(a, b) == IF a < b THEN a ELSE b

\* two URL strings name the same resource
SameSource(a, b) == Resolve(a) = Resolve(b)

\* C1 (as stated): every run of the fallback handler raises the element's
\* fallbackLevel by exactly one.
C1_ExactlyOnePerEvent ==
  [][ev'.kind = "error" => ParseLevel(fallbackLevel'[ev'.img]) = Level(ev'.img) + 1]_vars

\* C1 (amended): a run of the fallback handler moves level 0 to 1 or 2, level 1
\* to 2, level 2 to 3 and leaves level 3 at 3; no step lowers a level; after
\* three handler runs for an element it is at level 3.
C1_LevelAdvances ==
  [][/\ \A i \in Imgs : ParseLevel(fallbackLevel'[i]) >= Level(i)
     /\ ev'.kind = "error" =>
          LET i == ev'.img
              post == ParseLevel(fallbackLevel'[i])
          IN /\ Level(i) = 0 => post \in {1, 2}
             /\ Level(i) = 1 => post = 2
             /\ Level(i) >= 2 => post = 3
             /\ post >= Min(3, CountIn(fallbackStats', KeyOf(i)))]_vars

\* C1 witness: an element driven from level 0 to level 3 by failure events
C1_Witness ==
  /\ ev.kind = "error"
  /\ ev.pre = 2
  /\ Level(ev.img) = 3
  /\ LevelsOf(ev.img) = <<0, 1, 2>>

\* C2 (as stated): a level-0 failure on an element whose alternate source is
\* absent or is the source that just failed sets level 2 directly; with a
\* distinct alternate it sets level 1, the alternate as source and the tag
\* fallback-secondary.
C2_SkipWhenNoDistinctAlternate ==
  [][(ev'.kind = "error" /\ ev'.pre = 0) =>
       LET i == ev'.img IN
       IF ~Truthy(fallbackSrc[i]) \/ SameSource(fallbackSrc[i], srcAttr[i])
       THEN /\ fallbackLevel'[i] = "2"
            /\ srcAttr'[i] = srcAttr[i]
            /\ "fallback-secondary" \notin classes'[i]
       ELSE /\ fallbackLevel'[i] = "1"
            /\ srcAttr'[i] = fallbackSrc[i]
            /\ "fallback-secondary" \in classes'[i]]_vars

\* C3 (as stated): a run of the fallback handler on an element at level 3
\* changes neither the element (level, source, hidden flag, tags) nor its
\* container (tags, number of error placeholders).
C3_FailedIsAbsorbing ==
  [][(ev'.kind = "error" /\ ev'.pre = 3) =>
       LET i == ev'.img IN
       /\ fallbackLevel'[i] = fallbackLevel[i]
       /\ srcAttr'[i] = srcAttr[i]
       /\ hidden'[i] = hidden[i]
       /\ classes'[i] = classes[i]
       /\ nodeClasses' = nodeClasses
       /\ errorPlaceholders' = errorPlaceholders]_vars

\* C4 (as stated): after handleImageLoad the img is tagged loaded, not loading,
\* carries no placeholder/failed tag and is not hidden, and its container
\* carries neither image-placeholder nor image-failed.
C4_LoadClearsTags ==
  ev.kind = "load" =>
    /\ "loaded" \in classes[ev.img]
    /\ "loading" \notin classes[ev.img]
    /\ classes[ev.img] \cap {"fallback-tertiary", "fallback-final"} = {}
    /\ ~hidden[ev.img]
    /\ Closest(ev.img) # "" =>
         nodeClasses[Closest(ev.img)] \cap {"image-placeholder", "image-failed"} = {}

\* C5 (as stated): loaded and failed are never both set on an element, and
\* once one of them is set the element's fallbackLevel does not change.
Loaded(i) == "loaded" \in classes[i]
Failed(i) == Level(i) = 3 \/ "fallback-final" \in classes[i]

C5_TerminalFlags ==
  [][\A i \in Imgs :
       /\ ~("loaded" \in classes'[i] /\ fallbackLevel'[i] = "3")
       /\ (Loaded(i) \/ Failed(i)) => fallbackLevel'[i] = fallbackLevel[i]]_vars

\* C6: a step changes an element's fallbackLevel only by running the fallback
\* handler for that element, and every run of the handler adds exactly one
\* occurrence under the element's key category/name, with the level the
\* element had before the run, leaving the other keys as they were.
C6_OneOccurrencePerTransition ==
  [][/\ \A i \in Imgs : fallbackLevel'[i] # fallbackLevel[i] =>
                          (ev'.kind = "error" /\ ev'.img = i)
     /\ ev'.kind = "error" =>
          LET k == KeyOf(ev'.img)
              old == StatsMap(fallbackStats)
              new == StatsMap(fallbackStats')
          IN /\ DOMAIN new = DOMAIN old \cup {k}
             /\ new[k].count = CountIn(fallbackStats, k) + 1
             /\ new[k].levels = Append(LevelsIn(fallbackStats, k), Level(ev'.img))
             /\ \A j \in DOMAIN old \ {k} : new[j] = old[j]]_vars

\* C6 witness: the direct skip from level 0 to level 2 recorded once, with 0
C6_Witness ==
  /\ ev.kind = "error"
  /\ ev.pre = 0
  /\ Level(ev.img) = 2
  /\ LevelsOf(ev.img) = <<0>>
  /\ CountOf(ev.img) = 1

\* C7 (as stated): at most one load attempt of an element is pending: its own
\* fetch and the temporary probes of loadImage together
RECURSIVE SumOver(_, _)
SumOver(f, S) ==
  IF S = {} THEN 0
  ELSE LET x == CHOOSE y \in S : TRUE IN f[x] + SumOver(f, S \ {x})

PendingIn(pr, i) == SumOver(pr[i], Urls)
PendingProbes(i) == PendingIn(probes, i)
InFlight(i) == (IF Truthy(native[i]) THEN 1 ELSE 0) + PendingProbes(i)

C7_OneAttemptInFlight == \A i \in page : InFlight(i) <= 1

\* C8: getFallbackStats holds exactly the keys recorded since the last reset
\* (none for a fresh manager or right after a reset), each with the number of
\* its recordings and their levels in call order.
CallsFor(k) == SelectSeq(calls, LAMBDA c : c.key = k)

C8_StatsMatchCalls ==
  LET m == getFallbackStats IN
  /\ DOMAIN m = {calls[j].key : j \in 1..Len(calls)}
  /\ \A k \in DOMAIN m :
       /\ m[k].count = Len(CallsFor(k))
       /\ m[k].levels = [j \in 1..Len(CallsFor(k)) |-> CallsFor(k)[j].level]

\* C8 witness: (hero, x, 1), another key, then (hero, x, 2)
C8_Witness ==
  /\ Len(calls) = 3
  /\ calls[1].key = <<"hero", "/", "x">>
  /\ calls[2].key # calls[1].key
  /\ calls[3].key = calls[1].key
  /\ getFallbackStats[calls[1].key] = [levels |-> <<1, 2>>, count |-> 2]
  /\ getFallbackStats[calls[2].key].count = 1

\* C9: without IntersectionObserver the setup step starts one load attempt
\* for every lazy img of the document, marks it loading, and creates no
\* observer and no registration.
C9_EagerWhenNoObserver ==
  [][(~initDone /\ initDone' /\ ~hasIO) =>
       /\ \A i \in LazyImages :
            /\ probes'[i][ImageUrl(i)] = 1
            /\ PendingIn(probes', i) = 1
            /\ "loading" \in classes'[i]
       /\ ~observerCreated'
       /\ observed' = {}]_vars

\* C9 witness: both lazy imgs of the page have their attempt pending right
\* after setup, no observer exists
C9_Witness ==
  /\ ~hasIO
  /\ initDone
  /\ ~observerCreated
  /\ page = {"card", "thumb"}
  /\ \A i \in page : PendingProbes(i) = 1 /\ "loading" \in classes[i]

\* C10: with IntersectionObserver, the scheduler starts an attempt for an img
\* only in the callback that delivers its intersecting entry; that callback
\* leaves the img tagged loading and no longer registered; nothing registers
\* an img again; an img still registered has had no attempt.
C10_TriggerOncePerRegistration ==
  [][hasIO =>
       /\ initDone => observed' \subseteq observed
       /\ \A i \in Imgs :
            (PendingIn(probes', i) > PendingIn(probes, i) /\ explicit' = explicit) =>
              /\ i \in observed
              /\ i \notin observed'
              /\ "loading" \in classes'[i]
              /\ PendingIn(probes', i) = PendingIn(probes, i) + 1
       /\ \A i \in observed' : PendingIn(probes', i) = 0]_vars

\* C10 witness: one img triggered and deregistered, the other never
\* intersected and still waiting
C10_Witness ==
  /\ hasIO
  /\ page = {"card", "thumb"}
  /\ "card" \notin observed
  /\ PendingProbes("card") = 1
  /\ "thumb" \in observed
  /\ PendingProbes("thumb") = 0

\* ------------------------------------------ claims on the picture builder
\* the last call built a picture
BuiltLast == last.op \in {"createPictureElement", "testFallbackSystem"}

\* the last call found a record, and the record it found
LastHasRecord == HasRecord(last.meta, last.category, last.imageName)
LastRecord == last.meta.cats[last.category][last.imageName]

\* positions of the children of the last picture, by kind
ChildrenAt(tag, format) ==
  {k \in 1..Len(last.unit.children) :
     last.unit.children[k].tag = tag /\ last.unit.children[k].format = format}

\* C11: a picture built from a record with a webp and an optimized source has,
\* when checkWebPSupport reports support, one webp candidate before the
\* standard candidate and both before the img; with no support it has no webp
\* candidate; the img is the last child and its source is the record's primary
\* source.
C11_CandidateOrder ==
  (BuiltLast /\ LastHasRecord /\ Truthy(LastRecord.webp) /\ Truthy(LastRecord.optimized)) =>
    LET ch == last.unit.children
        w == ChildrenAt("source", "webp")
        st == ChildrenAt("source", "standard")
        im == ChildrenAt("img", "")
    IN /\ Cardinality(st) = 1
       /\ im = {Len(ch)}
       /\ \A a \in st, b \in im : a < b /\ ch[a].url = LastRecord.optimized
       /\ IF webpSupported
          THEN /\ Cardinality(w) = 1
               /\ \A a \in w, b \in st : a < b /\ ch[a].url = LastRecord.webp
          ELSE w = {}
       /\ ch[Len(ch)].url = LastRecord.src
       /\ last.unit.img.src = LastRecord.src

\* C11 witness: both candidates and the img, in a browser with webp support
C11_Witness ==
  /\ last.op = "createPictureElement"
  /\ LastHasRecord
  /\ webpSupported
  /\ Len(last.unit.children) = 3
  /\ last.unit.children[1].format = "webp"

\* the phrase of a category in the generated alt text
CategoryPhrase(category) ==
  CASE category = <<"hero">> -> "Professional plumbing services Milwaukee"
    [] category = <<"services">> -> "Radius Works Milwaukee plumbing services"
    [] category = <<"about">> -> "Radius Works team"
    [] category = <<"reviews">> -> "Customer satisfaction"

\* a name with every hyphen replaced by a space
RECURSIVE Spaced(_)
Spaced(name) ==
  IF name = <<>> THEN <<>>
  ELSE <<IF Head(name) = "-" THEN " " ELSE Head(name)>> \o Spaced(Tail(name))

NamedCategories == {<<"hero">>, <<"services">>, <<"about">>, <<"reviews">>}

\* the last call built a picture for a name the metadata does not have
DegradedLast == last.op = "createPictureElement" /\ ~LastHasRecord

\* the degraded unit carries the degraded tags and the category's generic
\* fallback as base source
DegradedShape ==
  /\ "fallback-picture" \in last.unit.classes
  /\ "fallback-image" \in last.unit.img.classes
  /\ last.unit.img.src = getFallbackImage(last.category)
  /\ last.unit.children = <<ImgChild(getFallbackImage(last.category))>>

\* C12 (as stated): for hero, services, about and reviews and a name absent
\* from the metadata, the unit is degraded, its base source is the category's
\* generic fallback and its alt text is the category phrase, " - ", the name
\* with every hyphen replaced by a space.
C12_AltPhraseThenName ==
  (DegradedLast /\ last.category \in NamedCategories) =>
    /\ DegradedShape
    /\ last.unit.img.alt =
         <<CategoryPhrase(last.category), " - ">> \o Spaced(last.imageName)

\* C12 (amended): as stated for hero, about and reviews; for services the alt
\* text is the name with every hyphen replaced by a space, " - ", the category
\* phrase.
C12_AltPerCategory ==
  (DegradedLast /\ last.category \in NamedCategories) =>
    /\ DegradedShape
    /\ last.unit.img.alt =
         IF last.category = <<"services">>
         THEN Spaced(last.imageName) \o <<" - ", CategoryPhrase(last.category)>>
         ELSE <<CategoryPhrase(last.category), " - ">> \o Spaced(last.imageName)

\* C12 witness: a degraded services unit for a name with two hyphens
C12_Witness ==
  /\ DegradedLast
  /\ last.category = <<"services">>
  /\ last.imageName = <<"tub", "-", "and", "-", "sink">>
  /\ last.unit.img.alt =
       <<"tub", " ", "and", " ", "sink", " - ", "Radius Works Milwaukee plumbing services">>

\* C13: the img built from a record is eager exactly when the record's
\* priority is high or options.eager is set, and lazy otherwise; the img of a
\* degraded unit is eager exactly when options.eager is set, and lazy otherwise.
C13_LoadingMode ==
  last.op = "createPictureElement" =>
    /\ last.unit.img.loading \in {"eager", "lazy"}
    /\ last.unit.img.loading = "eager" <=>
         IF LastHasRecord
         THEN LastRecord.priority = "high" \/ last.eager
         ELSE last.eager

\* C13 witness: a record of high priority built without options.eager
C13_Witness ==
  /\ last.op = "createPictureElement"
  /\ LastHasRecord
  /\ LastRecord.priority = "high"
  /\ ~last.eager
  /\ last.unit.img.loading = "eager"

\* the setup steps the startup sequence runs after the metadata load
ExpectedSetup ==
  <<"setupLazyLoading", "setupImageErrorHandling", "setupWebPSupport",
    "setupImagePreloading", "enhanceExistingImages", "monitorImagePerformance">>

\* C15: when the metadata fetch fails or its body cannot be parsed,
\* loadImageMetadata leaves the empty skeleton (empty hero, services, about and
\* reviews, plus the default open-graph image) and init goes on; init runs its
\* setup steps in their order, and has run all six of them when it ends.
C15_SkeletonAndSetup ==
  [][/\ (fetched.outcome = "" /\ fetched'.outcome \in {"fetch-fails", "parse-fails"}) =>
          /\ imageMetadata'.set
          /\ DOMAIN imageMetadata'.cats = NamedCategories
          /\ \A c \in NamedCategories : DOMAIN imageMetadata'.cats[c] = {}
          /\ Truthy(imageMetadata'.seoDefault)
          /\ initPc' = "setup"
     /\ Len(initSteps') <= Len(ExpectedSetup)
     /\ initSteps' = SubSeq(ExpectedSetup, 1, Len(initSteps'))
     /\ (initPc' = "done" /\ fetched'.outcome # "ok") => initSteps' = ExpectedSetup]_vars

\* C15 witness: init has ended after a body that could not be parsed
C15_Witness ==
  /\ fetched.outcome = "parse-fails"
  /\ initPc = "done"
  /\ Len(initSteps) = 6

\* C18 (as stated): once the metadata is loaded and no cleanup of
\* testFallbackSystem is pending, the metadata is the value that was loaded.
C18_MetadataImmutable ==
  (fetched.outcome # "" /\ cleanups = {}) => imageMetadata = fetched.meta

\* C20: getFallbackImage gives hero-bg.jpg for hero and reviews,
\* residential-service.jpg for services, radius-logo2.png for about and
\* hero-bg.jpg for every other category, whatever the metadata holds and
\* whatever was called before.
C20_FixedMapping ==
  last.op = "getFallbackImage" =>
    /\ last.category \in {<<"hero">>, <<"reviews">>} => last.url = Rel("hero-bg.jpg")
    /\ last.category = <<"services">> => last.url = Rel("residential-service.jpg")
    /\ last.category = <<"about">> => last.url = Rel("radius-logo2.png")
    /\ last.category \notin NamedCategories => last.url = Rel("hero-bg.jpg")

\* C20 witness: backgrounds asked after the metadata was loaded and changed
C20_Witness ==
  /\ last.op = "getFallbackImage"
  /\ last.category = <<"backgrounds">>
  /\ last.url = Rel("hero-bg.jpg")
  /\ imageMetadata.set
  /\ imageMetadata # fetched.meta

\* ------------------------------------- claims on the lifecycle, continued
\* C14 (as stated): no failure of an image load reaches calling code as a
\* rejected result: no promise returned by loadImage is ever rejected.
C14_NoRejectedLoad == rejected = {}

\* C16 (as stated): a step that does not run the fallback handler never lowers
\* the fallbackLevel of an element, and leaves the source of an element that
\* is past level 0 with the secondary source in place as it is.
C16_SuccessKeepsFallback ==
  [][\A i \in Imgs :
       (ev'.kind # "error" /\ Level(i) > 0) =>
         /\ ParseLevel(fallbackLevel'[i]) >= Level(i)
         /\ "fallback-secondary" \in classes[i] =>
              SameSource(srcAttr'[i], srcAttr[i])]_vars

\* C17 (as stated): when init has run its setup steps, every built img with
\* loading mode lazy is observed by the scheduler or, when observation is
\* unavailable, has a load attempt of loadImage under way.
C17_BuiltLazyRegistered ==
  [][(~initDone /\ initDone') =>
       \A i \in page :
         BuiltLazy(i) =>
           IF hasIO THEN i \in observed' ELSE PendingIn(probes', i) > 0]_vars

\* C19: no step changes the data-category or data-image-name of an img or of
\* the built picture, they stay as the builder wrote them, and every
\* occurrence recorded for a built img is recorded under the key of that
\* identity: the key's count is the number of handler runs for the img so far.
C19_StableIdentity ==
  [][/\ dataCategory' = dataCategory
     /\ dataImageName' = dataImageName
     /\ pictureData' = pictureData
     /\ \A i \in Imgs :
          Built(i) =>
            /\ StatsKey(dataCategory'[i], dataImageName'[i]) = KeyOf(i)
            /\ pictureData'.category = Category(i)
            /\ pictureData'.imageName = ImageName(i)
     /\ (ev'.kind = "error" /\ Built(ev'.img)) =>
          CountIn(fallbackStats', KeyOf(ev'.img)) =
            CountIn(fallbackStats, KeyOf(ev'.img)) + 1]_vars

\* C19 witness: three handler runs for the built img, all under hero/main
C19_Witness ==
  /\ "pic" \in page
  /\ ev.kind = "error"
  /\ ev.img = "pic"
  /\ <<"hero", "/", "main">> \in DOMAIN StatsMap(fallbackStats)
  /\ StatsMap(fallbackStats)[<<"hero", "/", "main">>].count = 3

\* --------------------------------------- claims on the fallback handler
\* the ancestors of an img that have the class image-container
ImageContainers(i) ==
  {Ancestors(i)[k] : k \in {j \in 1..Len(Ancestors(i)) :
                               NodeClass(Ancestors(i)[j]) = "image-container"}}

\* C22 (as stated): for a built img nested in an image-container, a handler
\* run at level 1 tags the image-container image-placeholder and a handler run
\* at level 2 tags it image-failed.
C22_ImageContainerTagged ==
  [][(ev'.kind = "error" /\ Built(ev'.img)) =>
       \A c \in ImageContainers(ev'.img) :
         /\ ev'.pre = 1 => "image-placeholder" \in nodeClasses'[c]
         /\ ev'.pre = 2 => "image-failed" \in nodeClasses'[c]]_vars

\* C23 (as stated): an error event on an img runs the fallback handler once:
\* the event being dispatched never has more than one handler run to make.
C23_OneRunPerErrorEvent ==
  Cardinality({k \in 1..Len(dispatch) : dispatch[k].kind # "load"}) <= 1

\* C25 (as stated): a handler run for an element at level 3 leaves the count
\* and the levels recorded under the element's key as they were.
C25_NoOccurrenceAtFailed ==
  [][(ev'.kind = "error" /\ ev'.pre = 3) =>
       /\ CountIn(fallbackStats', KeyOf(ev'.img)) = CountIn(fallbackStats, KeyOf(ev'.img))
       /\ LevelsIn(fallbackStats', KeyOf(ev'.img)) =
            LevelsIn(fallbackStats, KeyOf(ev'.img))]_vars

\* the text of the placeholder of a category
PlaceholderTextOf(category) ==
  CASE category = <<"hero">> -> "Professional Plumbing Services"
    [] category = <<"services">> -> "Service Image"
    [] OTHER -> "Image"

C29_TriggeredEndsLoaded ==
  \A i \in page :
    ( /\ LazyMarkup(i)
      /\ observerCreated
      /\ i \notin observed
      /\ Level(i) = 0
      /\ PendingProbes(i) = 0
      /\ ImageUrl(i) \in loadedImages ) =>
    ("loaded" \in classes[i] /\ "loading" \notin classes[i])

\* C30 (as stated): the first handler run for a degraded unit, whose source
\* and alternate are both the generic fallback of the category, sets level 2
\* and starts no load attempt.
C30_DegradedSkipsSecondary ==
  [][(ev'.kind = "error" /\ ev'.pre = 0 /\ Built(ev'.img)
        /\ srcAttr[ev'.img] = getFallbackImage(Category(ev'.img))
        /\ fallbackSrc[ev'.img] = getFallbackImage(Category(ev'.img))) =>
       /\ fallbackLevel'[ev'.img] = "2"
       /\ srcAttr'[ev'.img] = srcAttr[ev'.img]
       /\ native'[ev'.img] = native[ev'.img]]_vars

\* the placeholder-content and error-placeholder nodes inside a container
PlaceholdersWithin(n) == SumOver(placeholders, Subtree(n))
ErrorPlaceholdersWithin(n) == SumOver(errorPlaceholders, Subtree(n))

\* C28 (as stated): a container never holds more than one placeholder-content
\* node nor more than one error-placeholder node.
C28_OnePlaceholderPerContainer ==
  \A n \in Nodes : PlaceholdersWithin(n) <= 1 /\ ErrorPlaceholdersWithin(n) <= 1

\* ------------------------------------------ claims on the metadata reads
\* C21: getOptimizedImageSrc returns null when the metadata, the category or
\* the record is missing, and otherwise the record's webp source for format
\* webp or no format and the record's optimized source for any other format;
\* getOptimizedAltText returns the record's alt text, or the empty string when
\* the metadata, the category or the record is missing.
C21_MetadataReads ==
  /\ last.op = "getOptimizedImageSrc" =>
       IF LastHasRecord
       THEN /\ ~last.isNull
            /\ last.format \in {"webp", "undefined"} => last.url = LastRecord.webp
            /\ last.format \notin {"webp", "undefined"} => last.url = LastRecord.optimized
       ELSE last.isNull
  /\ last.op = "getOptimizedAltText" =>
       last.text = IF LastHasRecord THEN LastRecord.alt ELSE <<>>

\* C21 witness: the webp source returned for a call without a format
C21_Witness ==
  /\ last.op = "getOptimizedImageSrc"
  /\ last.format = "undefined"
  /\ LastHasRecord
  /\ ~last.isNull
  /\ last.url = Rel("test-image.webp")

\* ------------------------------------ claims on the global inline handlers
\* C24 (as stated): every call of handleAboutImageError and of
\* handleReviewImageError returns, and a call at level 0 for an element with
\* no alternate, or with the failed source as alternate, leaves it at level 2.
C24_InlineHandlersReturn ==
  /\ overflowed = {}
  /\ \A i \in page :
       (Inline(i) /\ ev.kind = "error" /\ ev.img = i /\ ev.pre = 0
          /\ "fallback-secondary" \notin classes[i]) => Level(i) = 2

\* ------------------------------------------- claims on per-element state
\* the fallback level, current source and presentation tags of img j are the
\* same after the step
ElementUnchanged(j) ==
  /\ fallbackLevel'[j] = fallbackLevel[j]
  /\ srcAttr'[j] = srcAttr[j]
  /\ classes'[j] = classes[j]
  /\ hidden'[j] = hidden[j]

\* C31: a failure or success event on one img leaves the fallback level,
\* current source and presentation tags of every other img unchanged, also
\* when both imgs are built from the same record: a handler run changes the
\* img of its event only, and no step after init's setup changes more than
\* one img.
C31_PerElementProgress ==
  [][/\ ev'.kind # "none" => \A j \in Imgs \ {ev'.img} : ElementUnchanged(j)
     /\ initDone' = initDone =>
          \E i \in Imgs : \A j \in Imgs \ {i} : ElementUnchanged(j)]_vars

\* C31 witness: of two imgs built from one record, one has failed twice and
\* is at the placeholder level, the other is untouched
C31_Witness ==
  /\ page = {"pic", "twin"}
  /\ dataCategory["pic"] = dataCategory["twin"]
  /\ dataImageName["pic"] = dataImageName["twin"]
  /\ ev.kind = "error" /\ ev.img = "pic"
  /\ Level("pic") = 2
  /\ Level("twin") = 0
  /\ ~hidden["twin"]
  /\ classes["twin"] = {}

C33_TwoTierMachine ==
  [][\A i \in page : ServiceTile(i) =>
       /\ (ev'.kind = "service" /\ ev'.img = i) =>
            IF ev'.pre = 0 /\ Truthy(fallbackSrc[i]) /\ fallbackSrc[i] # Resolve(srcAttr[i])
            THEN fallbackLevel'[i] = "1" /\ srcAttr'[i] = fallbackSrc[i]
            ELSE fallbackLevel'[i] = "2" /\ hidden'[i]
       /\ ParseLevel(fallbackLevel'[i]) >= Level(i)
       /\ ParseLevel(fallbackLevel'[i]) <= 2
       /\ Level(i) = 2 => ParseLevel(fallbackLevel'[i]) = 2]_vars

\* ------------------------------------------ claims on the metadata store
\* C34: init runs no setup step, and so no build or lookup, before
\* loadImageMetadata has set the metadata; and the metadata a caller has
\* assigned after construction is still in place when the load that the
\* constructor started ends.
C34_MetadataSetOnce ==
  [][/\ fetched'.outcome = "" => initSteps' = <<>>
     /\ (last.op = "assignMetadata" /\ fetched.outcome = "" /\ fetched'.outcome # "") =>
          imageMetadata' = last.meta]_vars

\* the text generated for a category and a name: the category's phrase and
\* the name with every hyphen replaced by a space, the name first for
\* services; 'Radius Works' is the phrase of every other category
GeneratedText(category, name) ==
  IF category = <<"services">>
  THEN Spaced(name) \o <<" - ", CategoryPhrase(category)>>
  ELSE IF category \in NamedCategories
  THEN <<CategoryPhrase(category), " - ">> \o Spaced(name)
  ELSE <<"Radius Works", " - ">> \o Spaced(name)

\* C35: the img built from a record has the record's alt text when that is
\* not empty and the generated text otherwise; for a category other than
\* hero, services, about and reviews the generated text is 'Radius Works - '
\* and the name with its hyphens replaced by spaces.
C35_AltFromRecordOrGenerated ==
  (BuiltLast /\ LastHasRecord) =>
    /\ LastRecord.alt # <<>> => last.unit.img.alt = LastRecord.alt
    /\ LastRecord.alt = <<>> =>
         last.unit.img.alt = GeneratedText(last.category, last.imageName)
    /\ (LastRecord.alt = <<>> /\ last.category \notin NamedCategories) =>
         last.unit.img.alt = <<"Radius Works", " - ">> \o Spaced(last.imageName)

\* C35 witness: a backgrounds record without alt text and with two hyphens
\* in its name
C35_Witness ==
  /\ last.op = "createPictureElement"
  /\ LastHasRecord
  /\ last.category = <<"backgrounds">>
  /\ LastRecord.alt = <<>>
  /\ last.unit.img.alt = <<"Radius Works", " - ", "tub", " ", "and", " ", "sink">>

\* ------------------------------------------ claims on format negotiation
\* the picture has a webp candidate among its children
OffersWebp(unit) ==
  \E k \in 1..Len(unit.children) :
     unit.children[k].tag = "source" /\ unit.children[k].format = "webp"

\* C36: in a browser without webp support, once init has completed the
\* markup has no webp source left, and neither the pictures init has put
\* into the page nor a picture built afterwards has a webp candidate.
C36_NoWebpWithoutSupport ==
  (~webpSupported /\ initPc = "done") =>
    /\ "image/webp" \notin markupSources
    /\ \A d \in docUnits : ~OffersWebp(d.unit)
    /\ BuiltLast => ~OffersWebp(last.unit)

\* C36 witness: no webp support, init has completed and replaced the imgs
\* with data-enhance, and a picture was built from a record that has a webp
\* source
C36_Witness ==
  /\ ~webpSupported
  /\ initPc = "done"
  /\ "image/jpeg" \in markupSources
  /\ \E d \in docUnits : d.origin = "enhance"
        /\ HasRecord(imageMetadata, d.unit.category, d.unit.imageName)
        /\ Truthy(imageMetadata.cats[d.unit.category][d.unit.imageName].webp)
  /\ last.op = "createPictureElement"
  /\ LastHasRecord
  /\ Truthy(LastRecord.webp)
  /\ ~OffersWebp(last.unit)
====
